---- MODULE Spec2Model ----
(***************************************************************************)
(* Model of the K3NG configuration tool core:                              *)
(*   parsers/preprocessor_parser.py   PreprocessorParser (parse, resolve)  *)
(*   validators/dependency_validator.py, value_validator.py,               *)
(*   pin_validator.py, boards/board_database.py, core/config_manager.py    *)
(*                                                                         *)
(* A line of text is abstracted to the facts the parser's regular          *)
(* expressions extract from it: which directive shape it has, the symbol   *)
(* it names, whether it is prefixed by "//", its value, and whether it     *)
(* contains a block-comment opener or closer.                              *)
(***************************************************************************)
EXTENDS Integers, Sequences, FiniteSets, TLC

\* ---------------------------------------------------------------- bounds
MaxLines == 4
MaxResolveLines == 6
MaxBlocks == 2
MaxReparseLines == 3
MaxCalls == 2

\* ------------------------------------------------------------ text lines
Names == {"X", "Y", "Z"}

None == "None"

IfKinds == {"ifdef", "ifndef", "if_defined", "if_not_defined"}

\* kind "blank": empty after strip; "prose": neither '#'-anchored nor a
\* "//"-comment holding a '#'; "other": a '#'-line of no recognised shape
\* (#include, #elif, #if with an expression, ...).
Line(k, n, c, v, o, cl) ==
  [kind |-> k, name |-> n, commented |-> c, value |-> v, open |-> o, close |-> cl]

Def(n)        == Line("define", n, FALSE, "1", FALSE, FALSE)
DefNoVal(n)   == Line("define", n, FALSE, None, FALSE, FALSE)
DefOff(n)     == Line("define", n, TRUE, None, FALSE, FALSE)
DefBC(n)      == Line("define", n, FALSE, "1", TRUE, TRUE)
If(k, n)      == Line(k, n, FALSE, None, FALSE, FALSE)
IfOff(k, n)   == Line(k, n, TRUE, None, FALSE, FALSE)
Else          == Line("else", None, FALSE, None, FALSE, FALSE)
Endif         == Line("endif", None, FALSE, None, FALSE, FALSE)
Undef(n)      == Line("undef", n, FALSE, None, FALSE, FALSE)
UndefOff(n)   == Line("undef", n, TRUE, None, FALSE, FALSE)
ElseOff       == Line("else", None, TRUE, None, FALSE, FALSE)
EndifOff      == Line("endif", None, TRUE, None, FALSE, FALSE)
Blank         == Line("blank", None, FALSE, None, FALSE, FALSE)
Prose         == Line("prose", None, FALSE, None, FALSE, FALSE)
Other         == Line("other", None, FALSE, None, FALSE, FALSE)
BCOpen        == Line("prose", None, FALSE, None, TRUE, FALSE)
BCClose       == Line("prose", None, FALSE, None, FALSE, TRUE)

\* Alphabet of the general parser specification.
ParseLines ==
  { Def("X"), DefNoVal("Y"), DefOff("X"), DefBC("Y"),
    If("ifdef", "X"), If("ifndef", "Y"), If("if_defined", "Y"),
    If("if_not_defined", "X"),
    Else, Endif, Undef("X"), Prose, BCOpen, BCClose }

\* Alphabet of the resolver specification: definitions and conditionals only.
ResolveLines ==
  { Def("Y"), Def("Z"),
    If("ifdef", "X"), If("if_defined", "Y"), If("ifndef", "X"), If("if_not_defined", "Y"),
    Else, Endif }

\* Alphabet of the comment-prefix specification: each directive shape with
\* and without the "//" prefix.
CommentedLines ==
  { Def("X"), DefOff("X"),
    If("ifdef", "X"), IfOff("ifdef", "X"), IfOff("ifndef", "Y"),
    IfOff("if_defined", "Y"), IfOff("if_not_defined", "X"),
    Else, ElseOff, Endif, EndifOff, Undef("X"), UndefOff("X") }

\* Alphabet of the flag specification: definitions with and without the
\* "//" prefix, an undefine and conditionals.
FlagLines ==
  { Def("Y"), DefOff("Y"), DefOff("Z"), Undef("Y"),
    If("ifdef", "X"), If("ifndef", "X"), Else, Endif }

\* ------------------------------------------------------------- variables
VARIABLES
  raw_lines,          \* self.raw_lines: the lines of the file
  file_complete,      \* the whole file has been seen (end of input reached once)
  pc,                 \* "idle" | "parsing": position of parse()
  calls,              \* number of parse() calls started on this parser
  line_num,           \* loop variable of parse()
  conditional_stack,  \* local of parse(): open blocks, innermost last
  in_block_comment,   \* local of parse()
  nodes,              \* heap of DefineNode objects, a node's identity is its index
  defines,            \* self.defines: name -> node identity
  conditionals,       \* self.conditionals: closed top-level blocks
  comments,           \* self.comments: the line numbers that carry a comment
  errors,             \* self.errors
  results,            \* the ParseResult objects returned so far
  snapshots,          \* what each returned ParseResult held when it was returned
  active_defines,     \* argument of the last resolve_conditionals call
  closure,            \* value returned by the last resolve_conditionals call
  eval_log,           \* the blocks process_block evaluated during that call, in order
  resolves,           \* number of resolve_conditionals calls made
  rules,              \* DependencyValidator.rules: the rule table it was built with
  features,           \* features_config.features: name -> [is_active, is_commented]
  active_features,    \* features_config.active_features
  active_options,     \* features_config.active_options
  pins,               \* pins_config.pins: name -> pin_string
  settings,           \* settings_config.settings: name -> value
  board_id,           \* ConfigurationManager.board_id (Optional)
  last_validation,    \* ConfigurationManager._last_validation (Optional)
  fix_trace,          \* how far a validate, apply_auto_fixes, validate run has come
  call                \* the last validator or manager call: its inputs and what it returned

parserVars == <<raw_lines, file_complete, pc, calls, line_num, conditional_stack,
                in_block_comment, nodes, defines, conditionals, comments, errors,
                results, snapshots>>

resolverVars == <<active_defines, closure, eval_log, resolves>>

mgrVars == <<rules, features, active_features, active_options, pins, settings,
             board_id, last_validation, fix_trace, call>>

vars == <<parserVars, resolverVars, mgrVars>>

\* --------------------------------------------------------------- helpers
Range(s) == { s[i] : i \in DOMAIN s }

EmptyMap == [n \in {} |-> 0]

Put(f, k, v) == [x \in (DOMAIN f) \cup {k} |-> IF x = k THEN v ELSE f[x]]

Last(s) == s[Len(s)]

Front(s) == SubSeq(s, 1, Len(s) - 1)

\* The innermost open block replaced by b.
SetTop(stack, b) == [stack EXCEPT ![Len(stack)] = b]

\* ------------------------------------------------ dataclasses of the parser
DefineNode(l, n, scope) ==
  [name |-> l.name, value |-> l.value, line_number |-> n, comment |-> None,
   conditional_scope |-> scope,
   is_active |-> ~l.commented, is_commented |-> l.commented]

\* Mutant: the new block's parent reference is left empty.
ConditionalBlock_no_parent(l, n, stack) ==
  [condition_type |-> l.kind, condition |-> l.name, start_line |-> n, end_line |-> 0,
   defines |-> <<>>, else_defines |-> <<>>, nested_blocks |-> <<>>,
   parent |-> 0,
   in_else |-> FALSE]

\* parent names the enclosing open block by its start line (0: no parent);
\* in_else is the attribute parse() attaches to every block it opens.
ConditionalBlock(l, n, stack) ==
  [condition_type |-> l.kind, condition |-> l.name, start_line |-> n, end_line |-> 0,
   defines |-> <<>>, else_defines |-> <<>>, nested_blocks |-> <<>>,
   parent |-> IF stack # <<>> THEN Last(stack).start_line ELSE 0,
   in_else |-> FALSE]

\* Mutant: #ifdef tests absence.
is_active_inverted(block, active) ==
  CASE block.condition_type = "ifdef"          -> block.condition \notin active
    [] block.condition_type = "ifndef"         -> block.condition \notin active
    [] block.condition_type = "if_defined"     -> block.condition \in active
    [] block.condition_type = "if_not_defined" -> block.condition \notin active
    [] OTHER                                   -> TRUE

is_active(block, active) ==
  CASE block.condition_type = "ifdef"          -> block.condition \in active
    [] block.condition_type = "ifndef"         -> block.condition \notin active
    [] block.condition_type = "if_defined"     -> block.condition \in active
    [] block.condition_type = "if_not_defined" -> block.condition \notin active
    [] OTHER                                   -> TRUE

\* A ParseResult shares self.defines, self.conditionals and self.errors with
\* the parser (shared), except the result of a failed read, whose defines and
\* conditionals are fresh empty containers; errors is self.errors in both.
ParseResult(ok, sh) == [success |-> ok, shared |-> sh]

RECURSIVE BlockValue(_, _)
BlockValue(b, nds) ==
  [condition_type |-> b.condition_type, condition |-> b.condition,
   start_line |-> b.start_line, end_line |-> b.end_line,
   defines |-> [i \in DOMAIN b.defines |-> nds[b.defines[i]]],
   else_defines |-> [i \in DOMAIN b.else_defines |-> nds[b.else_defines[i]]],
   nested_blocks |-> [i \in DOMAIN b.nested_blocks |-> BlockValue(b.nested_blocks[i], nds)],
   parent |-> b.parent]

\* What a ParseResult shows to its holder, objects replaced by their values.
ResultValue(r, nds, defs, conds, errs) ==
  [success |-> r.success,
   defines |-> IF r.shared THEN [n \in DOMAIN defs |-> nds[defs[n]]] ELSE EmptyMap,
   conditionals |-> IF r.shared THEN [i \in DOMAIN conds |-> BlockValue(conds[i], nds)]
                    ELSE <<>>,
   errors |-> errs]

\* ----------------------------------------------------------------- Init
\* State after PreprocessorParser.__init__: empty containers, nothing parsed.
ParserInit ==
  /\ raw_lines = <<>>
  /\ file_complete = FALSE
  /\ pc = "idle"
  /\ calls = 0
  /\ line_num = 0
  /\ conditional_stack = <<>>
  /\ in_block_comment = FALSE
  /\ nodes = <<>>
  /\ defines = EmptyMap
  /\ conditionals = <<>>
  /\ comments = {}
  /\ errors = <<>>
  /\ results = <<>>
  /\ snapshots = <<>>

ResolverInit ==
  /\ active_defines = {}
  /\ closure = {}
  /\ eval_log = <<>>
  /\ resolves = 0

\* No ConfigurationManager and no validator has been constructed.
NoManager ==
  /\ rules = <<>>
  /\ features = <<>>
  /\ active_features = {}
  /\ active_options = {}
  /\ pins = <<>>
  /\ settings = <<>>
  /\ board_id = <<>>
  /\ last_validation = <<>>
  /\ fix_trace = <<>>
  /\ call = <<>>

Init == ParserInit /\ ResolverInit /\ NoManager

\* ------------------------------------------------------------- parse()
\* parse() opens the file and reads all of its lines.  The file is fixed for
\* the life of the parser; its lines are drawn from alphabet A one by one the
\* first time they are read (at most M of them), and read back from
\* raw_lines by every later call.
ParseBegin(C) ==
  /\ pc = "idle"
  /\ calls < C
  /\ pc' = "parsing"
  /\ calls' = calls + 1
  /\ line_num' = 0
  /\ conditional_stack' = <<>>
  /\ in_block_comment' = FALSE
  /\ UNCHANGED <<raw_lines, file_complete, nodes, defines, conditionals, comments,
                 errors, results, snapshots>>
  /\ UNCHANGED <<resolverVars, mgrVars>>

\* open() raises: one error is recorded and an empty result is returned.
ParseFail(C) ==
  /\ pc = "idle"
  /\ calls < C
  /\ calls' = calls + 1
  /\ errors' = Append(errors, [kind |-> "read", line |-> 0])
  /\ results' = Append(results, ParseResult(FALSE, FALSE))
  /\ snapshots' = Append(snapshots,
                    ResultValue(ParseResult(FALSE, FALSE), nodes, defines, conditionals, errors'))
  /\ UNCHANGED <<raw_lines, file_complete, pc, line_num, conditional_stack,
                 in_block_comment, nodes, defines, conditionals, comments>>
  /\ UNCHANGED <<resolverVars, mgrVars>>

\* One iteration of the for loop takes line l as line number line_num + 1.
Feed(l, A, M) ==
  /\ IF file_complete
       THEN /\ line_num < Len(raw_lines)
            /\ l = raw_lines[line_num + 1]
            /\ raw_lines' = raw_lines
       ELSE /\ l \in A
            /\ Len(raw_lines) < M
            /\ raw_lines' = Append(raw_lines, l)
  /\ line_num' = line_num + 1
  /\ UNCHANGED <<file_complete, pc, calls, results, snapshots>>
  /\ UNCHANGED <<resolverVars, mgrVars>>

\* The line is consumed by the block-comment handling.
IsCommentLine(l) == (l.open /\ ~in_block_comment) \/ in_block_comment

ParseComment(l, A, M) ==
  /\ pc = "parsing"
  /\ IsCommentLine(l)
  /\ Feed(l, A, M)
  /\ comments' = IF l.kind # "blank" THEN comments \cup {line_num + 1} ELSE comments
  /\ in_block_comment' = IF l.open /\ ~in_block_comment THEN ~l.close
                         ELSE IF l.close THEN FALSE ELSE in_block_comment
  /\ UNCHANGED <<conditional_stack, nodes, defines, conditionals, errors>>

\* Empty lines, lines that are not preprocessor lines, and '#'-lines that
\* match none of the regular expressions.
ParseSkip(l, A, M) ==
  /\ pc = "parsing"
  /\ ~IsCommentLine(l)
  /\ l.kind \in {"blank", "prose", "other"}
  /\ Feed(l, A, M)
  /\ UNCHANGED <<conditional_stack, in_block_comment, nodes, defines, conditionals,
                 comments, errors>>

\* Mutant: the definition is added to the true-branch list whatever in_else is.
AddDefine_ignore_else(block, id) == [block EXCEPT !.defines = Append(@, id)]

\* The block a definition is added to: else_defines after #else, else defines.
AddDefine(block, id) ==
  IF block.in_else
    THEN [block EXCEPT !.else_defines = Append(@, id)]
    ELSE [block EXCEPT !.defines = Append(@, id)]

ParseDefine(l, A, M) ==
  /\ pc = "parsing"
  /\ ~IsCommentLine(l)
  /\ l.kind = "define"
  /\ Feed(l, A, M)
  /\ LET scope == IF conditional_stack # <<>> THEN Last(conditional_stack).condition
                  ELSE None
         id    == Len(nodes) + 1
     IN /\ nodes' = Append(nodes, DefineNode(l, line_num + 1, scope))
        /\ defines' = Put(defines, l.name, id)
        /\ conditional_stack' =
             IF conditional_stack # <<>>
               THEN SetTop(conditional_stack, AddDefine(Last(conditional_stack), id))
               ELSE conditional_stack
  /\ UNCHANGED <<in_block_comment, conditionals, comments, errors>>

\* #ifdef, #ifndef, #if defined(), #if !defined(): a new block is pushed.
ParseIf(l, A, M) ==
  /\ pc = "parsing"
  /\ ~IsCommentLine(l)
  /\ l.kind \in IfKinds
  /\ Feed(l, A, M)
  /\ conditional_stack' =
       Append(conditional_stack, ConditionalBlock(l, line_num + 1, conditional_stack))
  /\ UNCHANGED <<in_block_comment, nodes, defines, conditionals, comments, errors>>

\* Mutant: a comment-prefixed #else is skipped.
ParseElse_skip_commented(l, A, M) ==
  /\ pc = "parsing"
  /\ ~IsCommentLine(l)
  /\ l.kind = "else"
  /\ Feed(l, A, M)
  /\ conditional_stack' =
       IF conditional_stack # <<>> /\ ~l.commented
         THEN SetTop(conditional_stack, [Last(conditional_stack) EXCEPT !.in_else = TRUE])
         ELSE conditional_stack
  /\ UNCHANGED <<in_block_comment, nodes, defines, conditionals, comments, errors>>

ParseElse(l, A, M) ==
  /\ pc = "parsing"
  /\ ~IsCommentLine(l)
  /\ l.kind = "else"
  /\ Feed(l, A, M)
  /\ conditional_stack' =
       IF conditional_stack # <<>>
         THEN SetTop(conditional_stack, [Last(conditional_stack) EXCEPT !.in_else = TRUE])
         ELSE conditional_stack
  /\ UNCHANGED <<in_block_comment, nodes, defines, conditionals, comments, errors>>

\* Mutant: the block is attached but stays on the stack.
CloseInto_keep(stack, conds, n) ==
  [stack |-> stack, conds |-> Append(conds, [Last(stack) EXCEPT !.end_line = n])]

\* The popped block, closed at line n, attached to its new owner.
CloseInto(stack, conds, n) ==
  LET block == [Last(stack) EXCEPT !.end_line = n]
      rest  == Front(stack)
  IN IF rest # <<>>
       THEN [stack |-> SetTop(rest, [Last(rest) EXCEPT !.nested_blocks = Append(@, block)]),
             conds |-> conds]
       ELSE [stack |-> rest, conds |-> Append(conds, block)]

\* Mutant: an #endif met while no block is open is passed over in silence.
ParseEndif_silent(l, A, M) ==
  /\ pc = "parsing"
  /\ ~IsCommentLine(l)
  /\ l.kind = "endif"
  /\ Feed(l, A, M)
  /\ IF conditional_stack # <<>>
       THEN LET c == CloseInto(conditional_stack, conditionals, line_num + 1)
            IN /\ conditional_stack' = c.stack
               /\ conditionals' = c.conds
       ELSE UNCHANGED <<conditional_stack, conditionals>>
  /\ UNCHANGED <<in_block_comment, nodes, defines, comments, errors>>

ParseEndif(l, A, M) ==
  /\ pc = "parsing"
  /\ ~IsCommentLine(l)
  /\ l.kind = "endif"
  /\ Feed(l, A, M)
  /\ IF conditional_stack # <<>>
       THEN LET c == CloseInto(conditional_stack, conditionals, line_num + 1)
            IN /\ conditional_stack' = c.stack
               /\ conditionals' = c.conds
               /\ errors' = errors
       ELSE /\ errors' = Append(errors, [kind |-> "endif", line |-> line_num + 1])
            /\ UNCHANGED <<conditional_stack, conditionals>>
  /\ UNCHANGED <<in_block_comment, nodes, defines, comments>>

\* Mutant: #undef removes the symbol from the table.
ParseUndef_remove(l, A, M) ==
  /\ pc = "parsing"
  /\ ~IsCommentLine(l)
  /\ l.kind = "undef"
  /\ Feed(l, A, M)
  /\ defines' = [x \in (DOMAIN defines) \ {l.name} |-> defines[x]]
  /\ UNCHANGED <<conditional_stack, in_block_comment, nodes, conditionals, comments,
                 errors>>

ParseUndef(l, A, M) ==
  /\ pc = "parsing"
  /\ ~IsCommentLine(l)
  /\ l.kind = "undef"
  /\ Feed(l, A, M)
  /\ nodes' = IF l.name \in DOMAIN defines
                THEN [nodes EXCEPT ![defines[l.name]].is_active = FALSE]
                ELSE nodes
  /\ UNCHANGED <<conditional_stack, in_block_comment, defines, conditionals, comments,
                 errors>>

\* Mutant: only the innermost open block is reported.
UnclosedErrors_innermost(stack) ==
  IF stack = <<>> THEN <<>>
  ELSE << [kind |-> "unclosed", line |-> Last(stack).start_line] >>

\* One error per block still open, in stack order.
UnclosedErrors(stack) ==
  [i \in DOMAIN stack |-> [kind |-> "unclosed", line |-> stack[i].start_line]]

\* End of input: the unclosed blocks are reported and the result is returned.
ParseEnd ==
  /\ pc = "parsing"
  /\ file_complete => line_num = Len(raw_lines)
  /\ file_complete' = TRUE
  /\ pc' = "idle"
  /\ errors' = errors \o UnclosedErrors(conditional_stack)
  /\ LET r == ParseResult(Len(errors') = 0, TRUE)
     IN /\ results' = Append(results, r)
        /\ snapshots' = Append(snapshots,
                          ResultValue(r, nodes, defines, conditionals, errors'))
  /\ UNCHANGED <<raw_lines, calls, line_num, conditional_stack, in_block_comment,
                 nodes, defines, conditionals, comments>>
  /\ UNCHANGED <<resolverVars, mgrVars>>

\* ------------------------------------------------ general parser specification
Next ==
  \/ ParseBegin(1)
  \/ ParseFail(1)
  \/ \E l \in ParseLines : ParseComment(l, ParseLines, MaxLines)
  \/ \E l \in ParseLines : ParseSkip(l, ParseLines, MaxLines)
  \/ \E l \in ParseLines : ParseDefine(l, ParseLines, MaxLines)
  \/ \E l \in ParseLines : ParseIf(l, ParseLines, MaxLines)
  \/ \E l \in ParseLines : ParseElse(l, ParseLines, MaxLines)
  \/ \E l \in ParseLines : ParseEndif(l, ParseLines, MaxLines)
  \/ \E l \in ParseLines : ParseUndef(l, ParseLines, MaxLines)
  \/ ParseEnd

Spec == Init /\ [][Next]_vars

\* ------------------------------------------ comment-prefix specification
\* One parse() of a text of directives with and without the "//" prefix.
NextCommented ==
  \/ ParseBegin(1)
  \/ \E l \in CommentedLines : ParseDefine(l, CommentedLines, MaxLines)
  \/ \E l \in CommentedLines : ParseIf(l, CommentedLines, MaxLines)
  \/ \E l \in CommentedLines : ParseElse(l, CommentedLines, MaxLines)
  \/ \E l \in CommentedLines : ParseEndif(l, CommentedLines, MaxLines)
  \/ \E l \in CommentedLines : ParseUndef(l, CommentedLines, MaxLines)
  \/ ParseEnd

SpecCommented == Init /\ [][NextCommented]_vars

\* ------------------------------------------------- reparse specification
\* parse() called up to MaxCalls times on the same parser over the same file.
NextReparse ==
  \/ ParseBegin(MaxCalls)
  \/ ParseFail(MaxCalls)
  \/ \E l \in ParseLines : ParseComment(l, ParseLines, MaxReparseLines)
  \/ \E l \in ParseLines : ParseSkip(l, ParseLines, MaxReparseLines)
  \/ \E l \in ParseLines : ParseDefine(l, ParseLines, MaxReparseLines)
  \/ \E l \in ParseLines : ParseIf(l, ParseLines, MaxReparseLines)
  \/ \E l \in ParseLines : ParseElse(l, ParseLines, MaxReparseLines)
  \/ \E l \in ParseLines : ParseEndif(l, ParseLines, MaxReparseLines)
  \/ \E l \in ParseLines : ParseUndef(l, ParseLines, MaxReparseLines)
  \/ ParseEnd

SpecReparse == Init /\ [][NextReparse]_vars

\* ------------------------------------------------ resolve_conditionals()
\* process_block, with the accumulator `result` threaded through; log records
\* each evaluation: the block (by start line), the outcome of its test, and
\* the accumulator before the test and after the branch's names were added.
RECURSIVE process_block(_, _), process_blocks(_, _)

\* Mutant: the nested blocks of an inactive block are evaluated as well.
process_block_descend(block, st) ==
  IF is_active(block, st.result)
    THEN LET added == st.result \cup { nodes[i].name : i \in Range(block.defines) }
         IN process_blocks(block.nested_blocks,
               [result |-> added,
                log |-> Append(st.log, [block |-> block.start_line, active |-> TRUE,
                                        before |-> st.result, after |-> added])])
    ELSE LET added == st.result \cup { nodes[i].name : i \in Range(block.else_defines) }
         IN process_blocks(block.nested_blocks,
               [result |-> added,
                log |-> Append(st.log, [block |-> block.start_line, active |-> FALSE,
                                        before |-> st.result, after |-> added])])

\* Mutant: the nested blocks are evaluated before the block's own names are added.
process_block_inner_first(block, st) ==
  IF is_active(block, st.result)
    THEN LET inner == process_blocks(block.nested_blocks,
                        [result |-> st.result,
                         log |-> Append(st.log,
                                   [block |-> block.start_line, active |-> TRUE,
                                    before |-> st.result,
                                    after |-> st.result \cup
                                       { nodes[i].name : i \in Range(block.defines) }])])
         IN [result |-> inner.result \cup { nodes[i].name : i \in Range(block.defines) },
             log |-> inner.log]
    ELSE LET added == st.result \cup { nodes[i].name : i \in Range(block.else_defines) }
         IN [result |-> added,
             log |-> Append(st.log, [block |-> block.start_line, active |-> FALSE,
                                     before |-> st.result, after |-> added])]

\* Mutant: only the names of the nodes that are active are added.
process_block_active_only(block, st) ==
  IF is_active(block, st.result)
    THEN LET added == st.result \cup { nodes[i].name :
                         i \in { k \in Range(block.defines) : nodes[k].is_active } }
         IN process_blocks(block.nested_blocks,
               [result |-> added,
                log |-> Append(st.log, [block |-> block.start_line, active |-> TRUE,
                                        before |-> st.result, after |-> added])])
    ELSE LET added == st.result \cup { nodes[i].name :
                         i \in { k \in Range(block.else_defines) : nodes[k].is_active } }
         IN [result |-> added,
             log |-> Append(st.log, [block |-> block.start_line, active |-> FALSE,
                                     before |-> st.result, after |-> added])]

process_block(block, st) ==
  IF is_active(block, st.result)
    THEN LET added == st.result \cup { nodes[i].name : i \in Range(block.defines) }
         IN process_blocks(block.nested_blocks,
               [result |-> added,
                log |-> Append(st.log, [block |-> block.start_line, active |-> TRUE,
                                        before |-> st.result, after |-> added])])
    ELSE LET added == st.result \cup { nodes[i].name : i \in Range(block.else_defines) }
         IN [result |-> added,
             log |-> Append(st.log, [block |-> block.start_line, active |-> FALSE,
                                     before |-> st.result, after |-> added])]

\* for b in blocks: process_block(b)
process_blocks(blocks, st) ==
  IF blocks = <<>> THEN st
  ELSE process_blocks(Tail(blocks), process_block(Head(blocks), st))

\* Mutant: the accumulator starts empty instead of as a copy of the base set.
resolve_conditionals_from_empty(base) ==
  process_blocks(conditionals, [result |-> {}, log |-> <<>>])

resolve_conditionals(base) ==
  process_blocks(conditionals, [result |-> base, log |-> <<>>])

Resolve(base, R) ==
  /\ pc = "idle"
  /\ calls >= 1
  /\ resolves < R
  /\ resolves' = resolves + 1
  /\ active_defines' = base
  /\ closure' = resolve_conditionals(base).result
  /\ eval_log' = resolve_conditionals(base).log
  /\ UNCHANGED <<parserVars, mgrVars>>

\* ----------------------------------------------------- resolver specification
\* One parse() of a text of definitions and conditional directives in which
\* every #endif has a block to close and every block has at most one #else,
\* with at most MaxBlocks blocks, followed by one resolve_conditionals call
\* with any base set.
BlocksOpened == Cardinality({ i \in DOMAIN raw_lines : raw_lines[i].kind \in IfKinds })

ElseApplies == conditional_stack # <<>> /\ ~Last(conditional_stack).in_else

NextResolve ==
  \/ ParseBegin(1)
  \/ \E l \in ResolveLines : ParseDefine(l, ResolveLines, MaxResolveLines)
  \/ \E l \in ResolveLines : BlocksOpened < MaxBlocks
                               /\ ParseIf(l, ResolveLines, MaxResolveLines)
  \/ \E l \in ResolveLines : ElseApplies /\ ParseElse(l, ResolveLines, MaxResolveLines)
  \/ \E l \in ResolveLines : conditional_stack # <<>>
                               /\ ParseEndif(l, ResolveLines, MaxResolveLines)
  \/ ParseEnd
  \/ \E base \in SUBSET Names : Resolve(base, 1)

SpecResolve == Init /\ [][NextResolve]_vars

\* --------------------------------------------------------- flag specification
\* One parse() of a text whose definitions may be comment-prefixed or later
\* undefined, followed by one resolve_conditionals call with any base set.
NextFlags ==
  \/ ParseBegin(1)
  \/ \E l \in FlagLines : ParseDefine(l, FlagLines, MaxLines)
  \/ \E l \in FlagLines : ParseIf(l, FlagLines, MaxLines)
  \/ \E l \in FlagLines : ParseElse(l, FlagLines, MaxLines)
  \/ \E l \in FlagLines : ParseEndif(l, FlagLines, MaxLines)
  \/ \E l \in FlagLines : ParseUndef(l, FlagLines, MaxLines)
  \/ ParseEnd
  \/ \E base \in SUBSET Names : Resolve(base, 1)

SpecFlags == Init /\ [][NextFlags]_vars

\* ================================================================ validators
\* An optional key of a rule record or an Optional value: <<>> when absent,
\* <<v>> when present.
Absent == <<>>

Opt(v) == <<v>>

Has(o) == o # <<>>

Get(o, default) == IF o = <<>> THEN default ELSE o[1]

\* [x for x in list if x in set] and [x for x in list if x not in set]
RECURSIVE Keep(_, _), Drop(_, _)
Keep(list, set) ==
  IF list = <<>> THEN <<>>
  ELSE IF Head(list) \in set THEN <<Head(list)>> \o Keep(Tail(list), set)
       ELSE Keep(Tail(list), set)

Drop(list, set) ==
  IF list = <<>> THEN <<>>
  ELSE IF Head(list) \notin set THEN <<Head(list)>> \o Drop(Tail(list), set)
       ELSE Drop(Tail(list), set)

\* any(x in set for x in list)
AnyIn(list, set) == \E i \in DOMAIN list : list[i] \in set

ValidationIssue(sev, type, msg, affected, fixable) ==
  [severity |-> sev, rule_type |-> type, message |-> msg,
   affected_features |-> affected, auto_fixable |-> fixable]

\* ValidationResult(passed=True)
NewResult ==
  [passed |-> TRUE, errors |-> <<>>, warnings |-> <<>>, info |-> <<>>, auto_fixes |-> <<>>]

AddError(result, issue) == [result EXCEPT !.errors = Append(@, issue)]

AddWarning(result, issue) == [result EXCEPT !.warnings = Append(@, issue)]

AddInfo(result, issue) == [result EXCEPT !.info = Append(@, issue)]

\* ------------------------------------------------ DependencyValidator rules
FS == "FEATURE_S"
FA == "FEATURE_A"
FB == "FEATURE_B"
OO == "OPTION_O"

Symbols == {FS, FA, FB, OO}

MutexRule(group, members, max, min, when, msg) ==
  [group |-> group, features |-> members, max_count |-> max, min_count |-> min,
   when |-> when, error_message |-> msg]

RequiredRule(feature, requires, requires_any, conflicts_with, msg) ==
  [feature |-> feature, requires |-> requires, requires_any |-> requires_any,
   conflicts_with |-> conflicts_with, error_message |-> msg]

AutoRule(trigger, trigger_any, auto_enable, msg) ==
  [trigger |-> trigger, trigger_any |-> trigger_any, auto_enable |-> auto_enable,
   message |-> msg]

DisableRule(feature, requires, msg) ==
  [feature |-> feature, requires |-> requires, message |-> msg]

\* The rule tables the validator may have been constructed with.  Every
\* mutual-exclusivity rule has min_count <= max_count; messages are distinct,
\* so an issue's message names the rule it comes from.
RuleTables ==
  { [mutual_exclusivity |->
       << MutexRule("protocol", <<FS, FA, FB>>, Absent, Absent, Absent, "m1"),
          MutexRule("sensor", <<FA, FB, OO>>, Opt(2), Opt(1), Opt(FS), "m2") >>,
     required_dependencies |->
       << RequiredRule(FS, Opt(<<FA, FB>>), Absent, Absent, "r1"),
          RequiredRule(FA, Absent, Opt(<<FB, OO>>), Opt(<<FS>>), "r2") >>,
     auto_enablement |->
       << AutoRule(Opt(Opt(FA)), Absent, <<FB>>, "a1") >>,
     conditional_disable |->
       << DisableRule(FB, Opt(<<OO>>), "d1") >>],
    [mutual_exclusivity |->
       << MutexRule("pair", <<FA, FB>>, Opt(1), Opt(1), Absent, "m3") >>,
     required_dependencies |->
       << RequiredRule(FS, Opt(<<FA, OO>>), Absent, Opt(<<FB>>), "r3"),
          RequiredRule(FB, Opt(<<FA>>), Absent, Absent, "r4") >>,
     auto_enablement |->
       << AutoRule(Opt(<<FS, FB>>), Absent, <<OO, FA>>, "a2"),
          AutoRule(Opt(Opt(FS)), Opt(<<OO>>), <<FB>>, "a3") >>,
     conditional_disable |->
       << DisableRule(FA, Opt(<<FS, FB>>), "d2"),
          DisableRule(FS, Absent, "d3") >>] }

\* ------------------------------------------------ DependencyValidator.validate
\* One mutual-exclusivity rule applied to the active set, the error for too
\* many active members naming every member of the group
MutexStep_all_members(rule, active, result) ==
  LET max_count == Get(rule.max_count, 1)
      min_count == Get(rule.min_count, 0)
      count == Len(Keep(rule.features, active))
      over == IF count > max_count
                THEN AddError(result, ValidationIssue("error", "mutual_exclusivity",
                                 rule.error_message, rule.features, FALSE))
                ELSE result
  IN IF Has(rule.when) /\ rule.when[1] \notin active THEN result
     ELSE IF count < min_count
            THEN AddError(over, ValidationIssue("error", "mutual_exclusivity",
                                 rule.error_message, rule.features, FALSE))
            ELSE over

\* One mutual-exclusivity rule applied to the active set.
MutexStep(rule, active, result) ==
  LET max_count == Get(rule.max_count, 1)
      min_count == Get(rule.min_count, 0)
      active_in_group == Keep(rule.features, active)
      count == Len(active_in_group)
      over == IF count > max_count
                THEN AddError(result, ValidationIssue("error", "mutual_exclusivity",
                                 rule.error_message, active_in_group, FALSE))
                ELSE result
  IN IF Has(rule.when) /\ rule.when[1] \notin active THEN result
     ELSE IF count < min_count
            THEN AddError(over, ValidationIssue("error", "mutual_exclusivity",
                                 rule.error_message, rule.features, FALSE))
            ELSE over

RECURSIVE validate_mutual_exclusivity(_, _, _)
validate_mutual_exclusivity(rule_list, active, result) ==
  IF rule_list = <<>> THEN result
  ELSE validate_mutual_exclusivity(Tail(rule_list), active,
                                   MutexStep(Head(rule_list), active, result))

\* One required-dependency rule, a requires_any violation queueing its list
\* as well
RequiredStep_queue_any(rule, active, result) ==
  LET missing == Drop(Get(rule.requires, <<>>), active)
      r1 == IF Has(rule.requires) /\ missing # <<>>
              THEN [AddError(result, ValidationIssue("error", "required_dependency",
                                rule.error_message, <<rule.feature>> \o missing, TRUE))
                      EXCEPT !.auto_fixes = @ \o missing]
              ELSE result
      r2 == IF Has(rule.requires_any) /\ ~AnyIn(rule.requires_any[1], active)
              THEN [AddError(r1, ValidationIssue("error", "required_dependency",
                               rule.error_message,
                               <<rule.feature>> \o rule.requires_any[1], FALSE))
                      EXCEPT !.auto_fixes = @ \o rule.requires_any[1]]
              ELSE r1
      conflicting == Keep(Get(rule.conflicts_with, <<>>), active)
      r3 == IF Has(rule.conflicts_with) /\ conflicting # <<>>
              THEN AddError(r2, ValidationIssue("error", "conflict",
                               rule.error_message, <<rule.feature>> \o conflicting, TRUE))
              ELSE r2
  IN IF rule.feature \notin active THEN result ELSE r3

\* One required-dependency rule: requires, requires_any, conflicts_with.
RequiredStep(rule, active, result) ==
  LET missing == Drop(Get(rule.requires, <<>>), active)
      r1 == IF Has(rule.requires) /\ missing # <<>>
              THEN [AddError(result, ValidationIssue("error", "required_dependency",
                                rule.error_message, <<rule.feature>> \o missing, TRUE))
                      EXCEPT !.auto_fixes = @ \o missing]
              ELSE result
      r2 == IF Has(rule.requires_any) /\ ~AnyIn(rule.requires_any[1], active)
              THEN AddError(r1, ValidationIssue("error", "required_dependency",
                               rule.error_message,
                               <<rule.feature>> \o rule.requires_any[1], FALSE))
              ELSE r1
      conflicting == Keep(Get(rule.conflicts_with, <<>>), active)
      r3 == IF Has(rule.conflicts_with) /\ conflicting # <<>>
              THEN AddError(r2, ValidationIssue("error", "conflict",
                               rule.error_message, <<rule.feature>> \o conflicting, TRUE))
              ELSE r2
  IN IF rule.feature \notin active THEN result ELSE r3

RECURSIVE validate_required_dependencies(_, _, _)
validate_required_dependencies(rule_list, active, result) ==
  IF rule_list = <<>> THEN result
  ELSE validate_required_dependencies(Tail(rule_list), active,
                                      RequiredStep(Head(rule_list), active, result))

\* trigger is a single symbol (Opt(Opt(x))) or a list (Opt(list)); a
\* trigger_any key, when present, decides alone.
AutoStep(rule, active, result) ==
  LET by_trigger ==
        IF Has(rule.trigger)
          THEN IF rule.trigger[1] \in { Opt(x) : x \in Symbols }
                 THEN rule.trigger[1][1] \in active
                 ELSE AnyIn(rule.trigger[1], active)
          ELSE FALSE
      should_enable ==
        IF Has(rule.trigger_any) THEN AnyIn(rule.trigger_any[1], active) ELSE by_trigger
      missing == Drop(rule.auto_enable, active)
  IN IF should_enable /\ missing # <<>>
       THEN [AddInfo(result, ValidationIssue("info", "auto_enablement", rule.message,
                                             missing, TRUE))
               EXCEPT !.auto_fixes = @ \o missing]
       ELSE result

RECURSIVE apply_auto_enablement(_, _, _)
apply_auto_enablement(rule_list, active, result) ==
  IF rule_list = <<>> THEN result
  ELSE apply_auto_enablement(Tail(rule_list), active, AutoStep(Head(rule_list), active, result))

DisableStep(rule, active, result) ==
  LET missing == Drop(Get(rule.requires, <<>>), active)
  IN IF rule.feature \in active /\ Has(rule.requires) /\ missing # <<>>
       THEN AddWarning(result, ValidationIssue("warning", "conditional_disable",
                                               rule.message,
                                               <<rule.feature>> \o missing, FALSE))
       ELSE result

RECURSIVE check_conditional_disable(_, _, _)
check_conditional_disable(rule_list, active, result) ==
  IF rule_list = <<>> THEN result
  ELSE check_conditional_disable(Tail(rule_list), active,
                                 DisableStep(Head(rule_list), active, result))

\* DependencyValidator.validate stopping at the first family that found an
\* error
dependency_validate_stop_at_first(rule_list, feature_set, option_set) ==
  LET active_all == feature_set \cup option_set
      r1 == validate_mutual_exclusivity(rule_list.mutual_exclusivity, active_all, NewResult)
      r2 == IF r1.errors # <<>> THEN r1
            ELSE validate_required_dependencies(rule_list.required_dependencies,
                                                active_all, r1)
      r3 == IF r2.errors # <<>> THEN r2
            ELSE apply_auto_enablement(rule_list.auto_enablement, active_all, r2)
      r4 == IF r3.errors # <<>> THEN r3
            ELSE check_conditional_disable(rule_list.conditional_disable, active_all, r3)
  IN [r4 EXCEPT !.passed = (Len(r4.errors) = 0)]

\* DependencyValidator.validate(feature_set, option_set)
dependency_validate(rule_list, feature_set, option_set) ==
  LET active_all == feature_set \cup option_set
      r1 == validate_mutual_exclusivity(rule_list.mutual_exclusivity, active_all, NewResult)
      r2 == validate_required_dependencies(rule_list.required_dependencies, active_all, r1)
      r3 == apply_auto_enablement(rule_list.auto_enablement, active_all, r2)
      r4 == check_conditional_disable(rule_list.conditional_disable, active_all, r3)
  IN [r4 EXCEPT !.passed = (Len(r4.errors) = 0)]

\* ------------------------------------------------------- pins and boards
\* A pin value as Python holds it: an int, a str or None.
PInt(n) == [t |-> "int", n |-> n, s |-> ""]

PStr(x) == [t |-> "str", n |-> 0, s |-> x]

PNone == [t |-> "none", n |-> 0, s |-> ""]

\* value.startswith('A') for the strings of the model
StartsWithA(v) == v.t = "str" /\ v.s \in {"A0", "A1", "A9"}

PIN_REQUIREMENTS ==
  [pwm |-> << "azimuth_speed_voltage", "elevation_speed_voltage" >>,
   interrupt |-> << "az_incremental_encoder_a_pin", "az_incremental_encoder_b_pin",
                    "el_incremental_encoder_a_pin", "el_incremental_encoder_b_pin",
                    "az_position_pulse_pin", "el_position_pulse_pin",
                    "az_pulse_start_pin", "el_pulse_start_pin" >>,
   analog |-> << "rotator_analog_az", "rotator_analog_el", "azimuth_analog_input",
                 "elevation_analog_input", "analog_az_full_ccw", "analog_az_full_cw",
                 "analog_el_0_degrees", "analog_el_max_elevation" >>]

i2c_features ==
  { "FEATURE_ADAFRUIT_I2C_LCD", "FEATURE_YWROBOT_I2C_DISPLAY", "FEATURE_WIRE_SUPPORT",
    "FEATURE_RTC_DS1307", "FEATURE_RTC_PCF8583", "FEATURE_ADXL345_USING_ADAFRUIT_LIB",
    "FEATURE_ADXL345_USING_LOVE_ELECTRON_LIB", "FEATURE_HMC5883L", "FEATURE_LSM303",
    "FEATURE_QMC5883" }

spi_features == { "FEATURE_SPI", "FEATURE_ETHERNET" }

\* The board-capability table (external data): one board with a [min, max]
\* digital range.
Boards ==
  [b \in {"uno"} |->
     [digital_range |-> <<0, 13>>,
      analog_names |-> <<"A0", "A1">>,
      pwm |-> <<3, 5>>,
      interrupt |-> <<2, 3>>,
      i2c_reserved |-> << PStr("A0"), PInt(4) >>,
      spi_reserved |-> << PInt(11), PInt(12), PInt(13) >>]]

\* A dict: `order` lists its keys in iteration order and `at` gives their
\* values.
DictOf(order, at) == [order |-> order, at |-> at]

\* the filter of PinValidator.validate dropping the int 0 only
IsEnabledValue_zero_only(v) == ~(v = PInt(0))

\* {name: value for name, value in d.items() if keep(value)} for the filter
\* of PinValidator.validate
IsEnabledValue(v) ==
  ~(v = PInt(0)) /\ ~(v = PStr("0")) /\ ~(v = PNone) /\ ~(v = PStr("disabled"))

RECURSIVE EnabledKeys(_, _)
EnabledKeys(order, at) ==
  IF order = <<>> THEN <<>>
  ELSE IF IsEnabledValue(at[Head(order)])
         THEN <<Head(order)>> \o EnabledKeys(Tail(order), at)
         ELSE EnabledKeys(Tail(order), at)

ActivePins(d) == DictOf(EnabledKeys(d.order, d.at), d.at)

is_pwm_pin(board, v) ==
  board \in DOMAIN Boards /\ v.n \in Range(Boards[board].pwm)

is_interrupt_pin(board, v) ==
  board \in DOMAIN Boards /\ v.n \in Range(Boards[board].interrupt)

is_analog_pin(board, v) ==
  board \in DOMAIN Boards /\ v.s \in Range(Boards[board].analog_names)

\* One capability loop of _validate_pin_capabilities over the names of a
\* PIN_REQUIREMENTS list.
RECURSIVE CapabilityLoop(_, _, _, _, _)
CapabilityLoop(kind, names, board, d, result) ==
  IF names = <<>> THEN result
  ELSE LET name == Head(names)
           v == d.at[name]
           bad == /\ name \in Range(d.order)
                  /\ CASE kind = "pwm" -> v.t = "int" /\ ~is_pwm_pin(board, v)
                       [] kind = "interrupt" -> v.t = "int" /\ ~is_interrupt_pin(board, v)
                       [] OTHER -> StartsWithA(v) /\ ~is_analog_pin(board, v)
           issue == ValidationIssue("error", "pin_capability", kind, <<name>>, FALSE)
       IN CapabilityLoop(kind, Tail(names), board, d,
             IF bad THEN [AddError(result, issue) EXCEPT !.passed = FALSE] ELSE result)

validate_pin_capabilities(board, d, result) ==
  LET r1 == CapabilityLoop("pwm", PIN_REQUIREMENTS.pwm, board, d, result)
      r2 == CapabilityLoop("interrupt", PIN_REQUIREMENTS.interrupt, board, d, r1)
  IN CapabilityLoop("analog", PIN_REQUIREMENTS.analog, board, d, r2)

\* BoardDatabase.detect_pin_conflicts: the usage map in first-use order, then
\* one conflict per value used more than once.
RECURSIVE UsageKeys(_, _, _)
UsageKeys(order, at, seen) ==
  IF order = <<>> THEN <<>>
  ELSE LET v == at[Head(order)]
       IN IF v = PInt(0) \/ v = PNone \/ v \in seen
            THEN UsageKeys(Tail(order), at, seen)
            ELSE <<v>> \o UsageKeys(Tail(order), at, seen \cup {v})

RECURSIVE NamesWith(_, _, _)
NamesWith(order, at, v) ==
  IF order = <<>> THEN <<>>
  ELSE IF at[Head(order)] = v THEN <<Head(order)>> \o NamesWith(Tail(order), at, v)
       ELSE NamesWith(Tail(order), at, v)

RECURSIVE ConflictList(_, _)
ConflictList(keys, d) ==
  IF keys = <<>> THEN <<>>
  ELSE LET pin_names == NamesWith(d.order, d.at, Head(keys))
       IN IF Len(pin_names) > 1
            THEN << [pin |-> Head(keys), assignments |-> pin_names] >>
                   \o ConflictList(Tail(keys), d)
            ELSE ConflictList(Tail(keys), d)

detect_pin_conflicts(board, d) ==
  IF board \notin DOMAIN Boards THEN <<>>
  ELSE ConflictList(UsageKeys(d.order, d.at, {}), d)

RECURSIVE ConflictLoop(_, _)
ConflictLoop(conflicts, result) ==
  IF conflicts = <<>> THEN result
  ELSE ConflictLoop(Tail(conflicts),
         [AddError(result, ValidationIssue("error", "pin_conflict", "conflict",
                                           Head(conflicts).assignments, FALSE))
            EXCEPT !.passed = FALSE])

validate_pin_conflicts(board, d, result) ==
  ConflictLoop(detect_pin_conflicts(board, d), result)

RECURSIVE ReservedLoop(_, _, _, _, _)
ReservedLoop(bus, order, d, reserved, result) ==
  IF order = <<>> THEN result
  ELSE ReservedLoop(bus, Tail(order), d, reserved,
         IF d.at[Head(order)] \in Range(reserved)
           THEN AddWarning(result, ValidationIssue("warning", "reserved_pin", bus,
                                                   <<Head(order)>>, FALSE))
           ELSE result)

validate_reserved_pins(board, d, feature_set, result) ==
  LET pin_table == Boards[board]
      r1 == IF i2c_features \cap feature_set # {}
              THEN ReservedLoop("I2C", d.order, d, pin_table.i2c_reserved, result)
              ELSE result
  IN IF spi_features \cap feature_set # {}
       THEN ReservedLoop("SPI", d.order, d, pin_table.spi_reserved, r1)
       ELSE r1

RECURSIVE RangeLoop(_, _, _, _)
RangeLoop(order, d, pin_table, result) ==
  IF order = <<>> THEN result
  ELSE LET v == d.at[Head(order)]
           out == /\ ~StartsWithA(v)
                  /\ ~(v.t = "int" /\ v.n > 99)
                  /\ v.t = "int"
                  /\ Len(pin_table.digital_range) = 2
                  /\ (v.n < pin_table.digital_range[1] \/ v.n > pin_table.digital_range[2])
       IN RangeLoop(Tail(order), d, pin_table,
            IF out
              THEN [AddError(result, ValidationIssue("error", "pin_range", "range",
                                                     <<Head(order)>>, FALSE))
                      EXCEPT !.passed = FALSE]
              ELSE result)

validate_pin_numbers(board, d, result) ==
  RangeLoop(d.order, d, Boards[board], result)

\* PinValidator.validate(board, pin_assignments, feature_set)
pin_validate(board, pin_assignments, feature_set) ==
  IF board \notin DOMAIN Boards
    THEN [AddError(NewResult, ValidationIssue("error", "board_validation",
                                              "unknown board", <<>>, FALSE))
            EXCEPT !.passed = FALSE]
    ELSE LET active_pins == ActivePins(pin_assignments)
             r1 == validate_pin_capabilities(board, active_pins, NewResult)
             r2 == validate_pin_conflicts(board, active_pins, r1)
             r3 == validate_reserved_pins(board, active_pins, feature_set, r2)
         IN validate_pin_numbers(board, active_pins, r3)

\* ------------------------------------------------------- ValueValidator
\* A setting value as Python holds it: None, a number, a string (numeric or
\* not) or a list of numbers.
VNone == [t |-> "none", n |-> 0, items |-> <<>>]

VNum(n) == [t |-> "num", n |-> n, items |-> <<>>]

VStr(n) == [t |-> "str", n |-> n, items |-> <<>>]

VText == [t |-> "text", n |-> 0, items |-> <<>>]

VList(items) == [t |-> "list", n |-> 0, items |-> items]

ValueRule(values, min, max, wmin, wmax, allowed, amin, amax, check) ==
  [settings |-> values, min |-> min, max |-> max, warning_min |-> wmin,
   warning_max |-> wmax, allowed_values |-> allowed, array_min_size |-> amin,
   array_max_size |-> amax, consistency_check |-> check]

\* The value rules the validator was constructed with, the categories
\* flattened in file order.
ValueRules ==
  << ValueRule(<<"pwm", "speed">>, Opt(0), Opt(5), Opt(1), Opt(4),
               Absent, Absent, Absent, Absent),
     ValueRule(<<"baud">>, Absent, Absent, Absent, Absent,
               Opt({1, 2}), Absent, Absent, Absent),
     ValueRule(<<"table">>, Opt(1), Opt(3), Absent, Absent,
               Absent, Opt(1), Opt(2), Opt("ascending")),
     ValueRule(<<"speed">>, Opt(2), Absent, Absent, Absent,
               Absent, Absent, Absent, Absent) >>

\* _setting_rules[setting_name]; <<>> stands for a name without an entry
RECURSIVE build_setting_index(_, _)
build_setting_index(rule_list, setting_name) ==
  IF rule_list = <<>> THEN <<>>
  ELSE IF setting_name \in Range(Head(rule_list).settings)
         THEN <<Head(rule_list)>> \o build_setting_index(Tail(rule_list), setting_name)
         ELSE build_setting_index(Tail(rule_list), setting_name)

RangeError(result, name) ==
  [AddError(result, ValidationIssue("error", "value_range", "range", <<name>>, FALSE))
     EXCEPT !.passed = FALSE]

\* the ascending-order warnings of _validate_array, pair by pair
RECURSIVE AscendingLoop(_, _, _, _)
AscendingLoop(i, value, name, result) ==
  IF i >= Len(value) THEN result
  ELSE AscendingLoop(i + 1, value, name,
         IF value[i] >= value[i + 1]
           THEN AddWarning(result, ValidationIssue("warning", "array_consistency",
                                                   "ascending", <<name>>, FALSE))
           ELSE result)

RECURSIVE ElementLoop(_, _, _, _, _)
ElementLoop(i, value, name, rule, result) ==
  IF i > Len(value) THEN result
  ELSE LET r1 == IF Has(rule.min) /\ value[i] < rule.min[1]
                   THEN RangeError(result, name) ELSE result
           r2 == IF Has(rule.max) /\ value[i] > rule.max[1]
                   THEN RangeError(r1, name) ELSE r1
       IN ElementLoop(i + 1, value, name, rule, r2)

validate_array(name, value, rule, result) ==
  LET size_issue == ValidationIssue("error", "array_size", "size", <<name>>, FALSE)
      r1 == IF Has(rule.array_min_size) /\ Len(value) < rule.array_min_size[1]
              THEN [AddError(result, size_issue) EXCEPT !.passed = FALSE] ELSE result
      r2 == IF Has(rule.array_max_size) /\ Len(value) > rule.array_max_size[1]
              THEN [AddError(r1, size_issue) EXCEPT !.passed = FALSE] ELSE r1
      r3 == IF rule.consistency_check = Opt("ascending")
              THEN AscendingLoop(1, value, name, r2) ELSE r2
  IN ElementLoop(1, value, name, rule, r3)

\* _validate_setting reporting a breached warning bound as an error
validate_setting_warning_as_error(name, value, rule, result) ==
  IF value.t \in {"none", "text"} THEN result
  ELSE IF value.t = "list" THEN validate_array(name, value.items, rule, result)
  ELSE LET numeric_value == value.n
           r1 == IF Has(rule.min) /\ numeric_value < rule.min[1]
                   THEN RangeError(result, name) ELSE result
           r2 == IF Has(rule.max) /\ numeric_value > rule.max[1]
                   THEN RangeError(r1, name) ELSE r1
           r3 == IF Has(rule.warning_min) /\ numeric_value < rule.warning_min[1]
                   THEN RangeError(r2, name) ELSE r2
           r4 == IF Has(rule.warning_max) /\ numeric_value > rule.warning_max[1]
                   THEN RangeError(r3, name) ELSE r3
       IN IF Has(rule.allowed_values) /\ numeric_value \notin rule.allowed_values[1]
            THEN [AddError(r4, ValidationIssue("error", "allowed_values", "allowed",
                                               <<name>>, FALSE))
                    EXCEPT !.passed = FALSE]
            ELSE r4

\* ValueValidator._validate_setting
validate_setting(name, value, rule, result) ==
  IF value.t \in {"none", "text"} THEN result
  ELSE IF value.t = "list" THEN validate_array(name, value.items, rule, result)
  ELSE LET numeric_value == value.n
           low == ValidationIssue("warning", "value_range", "low", <<name>>, FALSE)
           high == ValidationIssue("warning", "value_range", "high", <<name>>, FALSE)
           r1 == IF Has(rule.min) /\ numeric_value < rule.min[1]
                   THEN RangeError(result, name) ELSE result
           r2 == IF Has(rule.max) /\ numeric_value > rule.max[1]
                   THEN RangeError(r1, name) ELSE r1
           r3 == IF Has(rule.warning_min) /\ numeric_value < rule.warning_min[1]
                   THEN AddWarning(r2, low) ELSE r2
           r4 == IF Has(rule.warning_max) /\ numeric_value > rule.warning_max[1]
                   THEN AddWarning(r3, high) ELSE r3
       IN IF Has(rule.allowed_values) /\ numeric_value \notin rule.allowed_values[1]
            THEN [AddError(r4, ValidationIssue("error", "allowed_values", "allowed",
                                               <<name>>, FALSE))
                    EXCEPT !.passed = FALSE]
            ELSE r4

RECURSIVE RuleLoop(_, _, _, _)
RuleLoop(rule_list, name, value, result) ==
  IF rule_list = <<>> THEN result
  ELSE RuleLoop(Tail(rule_list), name, value,
                validate_setting(name, value, Head(rule_list), result))

\* settings is a dict: `order` lists its keys in iteration order
RECURSIVE SettingLoop(_, _, _)
SettingLoop(order, at, result) ==
  IF order = <<>> THEN result
  ELSE SettingLoop(Tail(order), at,
         RuleLoop(build_setting_index(ValueRules, Head(order)), Head(order),
                  at[Head(order)], result))

\* ValueValidator.validate(values)
value_validate(values) == SettingLoop(values.order, values.at, NewResult)

\* ================================================== ConfigurationManager
FeatureNames == {FS, FA, FB}

PinNames ==
  << "azimuth_speed_voltage", "az_position_pulse_pin", "rotator_analog_az", "button_cw_pin" >>

SettingNames == << "pwm", "speed", "baud", "table", "note" >>

NoPins == DictOf(<<>>, [n \in Range(PinNames) |-> PNone])

NoSettings == DictOf(<<>>, [n \in Range(SettingNames) |-> VNone])

\* The pins files the manager may have loaded: pin_string is always a str.
PinFiles ==
  { DictOf(PinNames, [n \in Range(PinNames) |->
       CASE n = "azimuth_speed_voltage" -> PStr("3")
         [] n = "az_position_pulse_pin" -> PStr("2")
         [] n = "rotator_analog_az" -> PStr("A0")
         [] OTHER -> PStr("0")]),
    DictOf(PinNames, [n \in Range(PinNames) |->
       CASE n = "azimuth_speed_voltage" -> PStr("4")
         [] n = "az_position_pulse_pin" -> PStr("4")
         [] n = "rotator_analog_az" -> PStr("A9")
         [] OTHER -> PStr("77")]) }

\* The settings files the manager may have loaded.
SettingsFiles ==
  { DictOf(SettingNames, [n \in Range(SettingNames) |->
       CASE n = "pwm" -> VNum(5)
         [] n = "speed" -> VNum(3)
         [] n = "baud" -> VNum(1)
         [] n = "table" -> VList(<<1, 2>>)
         [] OTHER -> VText]),
    DictOf(SettingNames, [n \in Range(SettingNames) |->
       CASE n = "pwm" -> VNum(6)
         [] n = "speed" -> VStr(0)
         [] n = "baud" -> VNum(3)
         [] n = "table" -> VList(<<2, 2, 4>>)
         [] OTHER -> VNone]) }

\* A DefineNode of the feature table as the manager uses it.
Feature(on) == [is_active |-> on, is_commented |-> ~on]

Input(feature_set, option_set, board, pin_assignments, values) ==
  [active_features |-> feature_set, active_options |-> option_set, board |-> board,
   pins |-> pin_assignments, settings |-> values]

\* One call: who was called, with what, what it returned, and for
\* ConfigurationManager.validate the results of the validators it ran.
Call(who, input, result, parts, fixes, count) ==
  [who |-> who, input |-> input, result |-> result, parts |-> parts,
   fixes |-> fixes, count |-> count]

\* State after ConfigurationManager.__init__ and load().
ManagerLoaded ==
  /\ rules \in RuleTables
  /\ \E on \in SUBSET FeatureNames :
       /\ features = [f \in FeatureNames |-> Feature(f \in on)]
       /\ active_features = on
  /\ active_options \in SUBSET {OO}
  /\ pins \in PinFiles
  /\ settings \in SettingsFiles
  /\ board_id \in {Absent, Opt("uno")}
  /\ last_validation = Absent
  /\ fix_trace = [phase |-> "none", first |-> Absent]
  /\ call = Absent

InitManager == ParserInit /\ ResolverInit /\ ManagerLoaded

\* ------------------------------------------------- the validators, called
\* DependencyValidator.validate called by a client of the validator.
DependencyValidate ==
  /\ call' = Opt(Call("dependency",
                      Input(active_features, active_options, Absent, NoPins, NoSettings),
                      dependency_validate(rules, active_features, active_options),
                      <<>>, Absent, 0))
  /\ UNCHANGED <<rules, features, active_features, active_options, pins, settings,
                 board_id, last_validation, fix_trace>>
  /\ UNCHANGED <<parserVars, resolverVars>>

\* A second validate call whose result object is the one the first call
\* returned, so that its issues are appended to the first call's lists.
validate_again_accumulating(rule_list, feature_set, option_set, previous) ==
  LET active_all == feature_set \cup option_set
      r1 == validate_mutual_exclusivity(rule_list.mutual_exclusivity, active_all, previous)
      r2 == validate_required_dependencies(rule_list.required_dependencies, active_all, r1)
      r3 == apply_auto_enablement(rule_list.auto_enablement, active_all, r2)
      r4 == check_conditional_disable(rule_list.conditional_disable, active_all, r3)
  IN [r4 EXCEPT !.passed = (Len(r4.errors) = 0)]

\* DependencyValidator.validate called again on a validator that has already
\* returned `previous`: the call builds its own ValidationResult(passed=True)
\* and reads self.rules, which no call assigns.
validate_again(rule_list, feature_set, option_set, previous) ==
  dependency_validate(rule_list, feature_set, option_set)

\* Two consecutive DependencyValidator.validate calls by a client of the
\* validator, with the same active sets.
DependencyValidateTwice ==
  LET first == dependency_validate(rules, active_features, active_options)
      second == validate_again(rules, active_features, active_options, first)
  IN /\ call' = Opt(Call("dependency_twice",
                         Input(active_features, active_options, Absent, NoPins, NoSettings),
                         second, <<Opt(first), Opt(second)>>, Absent, 0))
     /\ UNCHANGED <<rules, features, active_features, active_options, pins, settings,
                    board_id, last_validation, fix_trace>>
     /\ UNCHANGED <<parserVars, resolverVars>>

\* DependencyValidator.get_auto_fixes
get_auto_fixes(rule_list, feature_set, option_set) ==
  LET result == dependency_validate(rule_list, feature_set, option_set)
  IN [enable |-> Range(result.auto_fixes), disable |-> {}]

GetAutoFixes ==
  /\ call' = Opt(Call("get_auto_fixes",
                      Input(active_features, active_options, Absent, NoPins, NoSettings),
                      dependency_validate(rules, active_features, active_options),
                      <<>>, Opt(get_auto_fixes(rules, active_features, active_options)), 0))
  /\ UNCHANGED <<rules, features, active_features, active_options, pins, settings,
                 board_id, last_validation, fix_trace>>
  /\ UNCHANGED <<parserVars, resolverVars>>

\* PinValidator.validate called by a client of the validator.
PinValidate(board, feature_set) ==
  /\ call' = Opt(Call("pin", Input(feature_set, {}, Opt(board), pins, NoSettings),
                      pin_validate(board, pins, feature_set), <<>>, Absent, 0))
  /\ UNCHANGED <<rules, features, active_features, active_options, pins, settings,
                 board_id, last_validation, fix_trace>>
  /\ UNCHANGED <<parserVars, resolverVars>>

\* ValueValidator.validate called by a client of the validator.
ValueValidate ==
  /\ call' = Opt(Call("value", Input({}, {}, Absent, NoPins, settings),
                      value_validate(settings), <<>>, Absent, 0))
  /\ UNCHANGED <<rules, features, active_features, active_options, pins, settings,
                 board_id, last_validation, fix_trace>>
  /\ UNCHANGED <<parserVars, resolverVars>>

Pins(a, b, c, e) ==
  DictOf(PinNames, [n \in Range(PinNames) |->
     CASE n = "azimuth_speed_voltage" -> a
       [] n = "az_position_pulse_pin" -> b
       [] n = "rotator_analog_az" -> c
       [] OTHER -> e])

Settings(a, b, c, e) ==
  DictOf(SettingNames, [n \in Range(SettingNames) |->
     CASE n = "pwm" -> a
       [] n = "speed" -> b
       [] n = "baud" -> c
       [] n = "table" -> e
       [] OTHER -> VText])

\* The pin assignments and settings the clients pass: pin values are ints,
\* strs and None.
ClientInputs ==
  { <<Pins(PInt(3), PInt(2), PStr("A0"), PInt(4)),
      Settings(VNum(0), VStr(1), VNum(2), VList(<<>>))>>,
    <<Pins(PInt(4), PInt(4), PStr("A9"), PInt(14)),
      Settings(VNum(3), VNum(5), VStr(3), VList(<<1, 3>>))>>,
    <<Pins(PInt(100), PInt(0), PInt(100), PNone),
      Settings(VNone, VNum(2), VText, VList(<<3, 0, 4>>))>>,
    <<Pins(PStr("3"), PInt(13), PStr("0"), PInt(13)),
      Settings(VNum(6), VNum(3), VNum(1), VList(<<2>>))>>,
    <<Pins(PInt(0), PInt(0), PStr("A0"), PInt(5)),
      Settings(VNum(-1), VNum(3), VNum(1), VList(<<1>>))>>,
    <<Pins(PInt(5), PInt(5), PInt(5), PStr("disabled")),
      Settings(VText, VStr(6), VNum(2), VList(<<1, 2>>))>>,
    <<Pins(PStr("0"), PStr("0"), PNone, PNone),
      Settings(VStr(5), VText, VNum(1), VList(<<2, 3>>))>> }

\* (board_id, active_features) as the clients of PinValidator pass them
PinCallInputs ==
  { <<"uno", {}>>, <<"uno", {"FEATURE_WIRE_SUPPORT"}>>, <<"uno", {"FEATURE_SPI", FA}>>,
    <<"zz", {FS}>> }

\* The configurations the validators are called on: those of a loaded
\* manager and those the clients build.
ValidatorInputs ==
  /\ rules \in RuleTables
  /\ \E on \in SUBSET FeatureNames :
       /\ features = [f \in FeatureNames |-> Feature(f \in on)]
       /\ active_features = on
  /\ active_options \in SUBSET {OO}
  /\ \E i \in (PinFiles \X SettingsFiles) \cup ClientInputs :
       /\ pins = i[1]
       /\ settings = i[2]
  /\ board_id \in {Absent, Opt("uno")}
  /\ last_validation = Absent
  /\ fix_trace = [phase |-> "none", first |-> Absent]
  /\ call = Absent

InitValidators == ParserInit /\ ResolverInit /\ ValidatorInputs

\* ------------------------------------------- ConfigurationManager methods
\* validate() merging another validator's result into its own, the issues
\* are appended without updating passed
Merge_lists_only(result, other) ==
  [result EXCEPT !.errors = @ \o other.errors,
                 !.warnings = @ \o other.warnings,
                 !.info = @ \o other.info]

\* validate() merging another validator's result into its own.
Merge(result, other) ==
  [result EXCEPT !.errors = @ \o other.errors,
                 !.warnings = @ \o other.warnings,
                 !.info = @ \o other.info,
                 !.passed = IF ~other.passed THEN FALSE ELSE @]

\* board_id or self.board_id
BoardFor(board) == IF Has(board) THEN board ELSE board_id

\* What validate(board) computes in the current state: the three validators'
\* results and the merged one.
Validation(board) ==
  LET dep == dependency_validate(rules, active_features, active_options)
      chosen == BoardFor(board)
      pin_result == IF Has(chosen)
                      THEN Opt(pin_validate(chosen[1], pins, active_features))
                      ELSE Absent
      with_pins == IF Has(chosen) THEN Merge(dep, pin_result[1]) ELSE dep
      value_result == value_validate(settings)
  IN [dep |-> dep, pin |-> pin_result, value |-> value_result,
      merged |-> Merge(with_pins, value_result)]

ValidateCall(board, v) ==
  Call("manager", Input(active_features, active_options, BoardFor(board), pins, settings),
       v.merged, <<Opt(v.dep), v.pin, Opt(v.value)>>, Absent, 0)

\* ConfigurationManager.validate(board_id)
Validate(board) ==
  LET v == Validation(board)
  IN /\ last_validation' = Opt(v.merged)
     /\ call' = Opt(ValidateCall(board, v))
     /\ fix_trace' = IF fix_trace.phase = "applied"
                       THEN [fix_trace EXCEPT !.phase = "revalidated"]
                       ELSE [phase |-> "validated", first |-> Opt(v.merged)]
     /\ UNCHANGED <<rules, features, active_features, active_options, pins, settings,
                    board_id>>
     /\ UNCHANGED <<parserVars, resolverVars>>

\* enable_feature setting the table entry's flags without adding the name to
\* active_features
EnableFeature_table_only(feature_name) ==
  /\ IF feature_name \in DOMAIN features
       THEN features' = [features EXCEPT ![feature_name] =
                           [is_active |-> TRUE, is_commented |-> FALSE]]
       ELSE UNCHANGED features
  /\ fix_trace' = [phase |-> "none", first |-> Absent]
  /\ UNCHANGED <<rules, active_features, active_options, pins, settings, board_id,
                 last_validation, call>>
  /\ UNCHANGED <<parserVars, resolverVars>>

\* ConfigurationManager.enable_feature
EnableFeature(feature_name) ==
  /\ IF feature_name \in DOMAIN features
       THEN /\ features' = [features EXCEPT ![feature_name] =
                              [is_active |-> TRUE, is_commented |-> FALSE]]
            /\ active_features' = active_features \cup {feature_name}
       ELSE UNCHANGED <<features, active_features>>
  /\ fix_trace' = [phase |-> "none", first |-> Absent]
  /\ UNCHANGED <<rules, active_options, pins, settings, board_id, last_validation, call>>
  /\ UNCHANGED <<parserVars, resolverVars>>

\* ConfigurationManager.disable_feature
DisableFeature(feature_name) ==
  /\ IF feature_name \in DOMAIN features
       THEN /\ features' = [features EXCEPT ![feature_name] =
                              [is_active |-> FALSE, is_commented |-> TRUE]]
            /\ active_features' = active_features \ {feature_name}
       ELSE UNCHANGED <<features, active_features>>
  /\ fix_trace' = [phase |-> "none", first |-> Absent]
  /\ UNCHANGED <<rules, active_options, pins, settings, board_id, last_validation, call>>
  /\ UNCHANGED <<parserVars, resolverVars>>

RECURSIVE FixLoop_add_unknown(_, _), FixLoop(_, _)

\* The loop of apply_auto_fixes, a queued name that is not in the feature
\* table being added to it
FixLoop_add_unknown(fixes, state) ==
  IF fixes = <<>> THEN state
  ELSE FixLoop_add_unknown(Tail(fixes),
         [features |-> [f \in DOMAIN state.features \cup {Head(fixes)} |->
                          IF f = Head(fixes)
                            THEN [is_active |-> TRUE, is_commented |-> FALSE]
                            ELSE state.features[f]],
          active_features |-> state.active_features \cup {Head(fixes)},
          count |-> state.count + 1])

\* The loop of apply_auto_fixes over the auto_fixes list.
FixLoop(fixes, state) ==
  IF fixes = <<>> THEN state
  ELSE FixLoop(Tail(fixes),
         IF Head(fixes) \in DOMAIN state.features
           THEN [features |-> [state.features EXCEPT ![Head(fixes)] =
                                 [is_active |-> TRUE, is_commented |-> FALSE]],
                 active_features |-> state.active_features \cup {Head(fixes)},
                 count |-> state.count + 1]
           ELSE state)

\* ConfigurationManager.apply_auto_fixes
ApplyAutoFixes ==
  LET v == Validation(Absent)
      used == IF Has(last_validation) THEN last_validation[1] ELSE v.merged
      done == FixLoop(used.auto_fixes,
                      [features |-> features, active_features |-> active_features,
                       count |-> 0])
  IN /\ last_validation' = Opt(used)
     /\ features' = done.features
     /\ active_features' = done.active_features
     /\ call' = Opt(Call("apply_auto_fixes",
                         Input(active_features, active_options, Absent, pins, settings),
                         used, <<>>, Absent, done.count))
     /\ fix_trace' = CASE ~Has(last_validation) -> [phase |-> "applied", first |-> Opt(used)]
                       [] fix_trace.phase = "validated" -> [fix_trace EXCEPT !.phase = "applied"]
                       [] OTHER -> [phase |-> "none", first |-> Absent]
     /\ UNCHANGED <<rules, active_options, pins, settings, board_id>>
     /\ UNCHANGED <<parserVars, resolverVars>>

\* ConfigurationManager.set_pin_assignment
SetPinAssignment(pin_name, pin_value) ==
  /\ pins' = IF pin_name \in Range(pins.order)
               THEN [pins EXCEPT !.at[pin_name] = pin_value]
               ELSE pins
  /\ fix_trace' = [phase |-> "none", first |-> Absent]
  /\ UNCHANGED <<rules, features, active_features, active_options, settings, board_id,
                 last_validation, call>>
  /\ UNCHANGED <<parserVars, resolverVars>>

\* ConfigurationManager.set_setting_value
SetSettingValue(setting_name, value) ==
  /\ settings' = IF setting_name \in Range(settings.order)
                   THEN [settings EXCEPT !.at[setting_name] = value]
                   ELSE settings
  /\ fix_trace' = [phase |-> "none", first |-> Absent]
  /\ UNCHANGED <<rules, features, active_features, active_options, pins, board_id,
                 last_validation, call>>
  /\ UNCHANGED <<parserVars, resolverVars>>

\* The dict get_validation_summary builds from a result.
Summary(result) ==
  [passed |-> result.passed, error_count |-> Len(result.errors),
   warning_count |-> Len(result.warnings), info_count |-> Len(result.info),
   auto_fixes_available |-> Len(result.auto_fixes)]

\* ConfigurationManager.get_validation_summary
GetValidationSummary ==
  LET v == Validation(Absent)
      used == IF Has(last_validation) THEN last_validation[1] ELSE v.merged
  IN /\ last_validation' = Opt(used)
     /\ call' = Opt(Call("get_validation_summary",
                         Input(active_features, active_options, Absent, pins, settings),
                         used, <<>>, Opt(Summary(used)), 0))
     /\ fix_trace' = IF Has(last_validation) THEN fix_trace
                     ELSE [phase |-> "validated", first |-> Opt(used)]
     /\ UNCHANGED <<rules, features, active_features, active_options, pins, settings,
                    board_id>>
     /\ UNCHANGED <<parserVars, resolverVars>>

\* --------------------------------------------------- validators specification
\* The validators called by their clients and through the manager, on a
\* loaded configuration.
NextValidators ==
  \/ DependencyValidate
  \/ DependencyValidateTwice
  \/ GetAutoFixes
  \/ \E i \in PinCallInputs : PinValidate(i[1], i[2])
  \/ ValueValidate
  \/ \E board \in {Absent, Opt("zz")} : Validate(board)

SpecValidators == InitValidators /\ [][NextValidators]_vars

\* ----------------------------------------------------- manager specification
NextManager ==
  \/ \E f \in Symbols : EnableFeature(f)
  \/ \E f \in Symbols : DisableFeature(f)
  \/ \E board \in {Absent, Opt("zz")} : Validate(board)
  \/ ApplyAutoFixes

SpecManager == InitManager /\ [][NextManager]_vars

\* ------------------------------------------------------ import_from_dict
\* The "features" part of import_from_dict: for each (name, enabled) item in
\* dict order, enable_feature or disable_feature when the name is in the table.
RECURSIVE ImportFeatures(_, _)
ImportFeatures(items, state) ==
  IF items = <<>> THEN state
  ELSE LET name == Head(items)[1]
           enabled == Head(items)[2]
       IN ImportFeatures(Tail(items),
            IF name \in DOMAIN state.features
              THEN [features |-> [state.features EXCEPT ![name] =
                                    [is_active |-> enabled, is_commented |-> ~enabled]],
                    active_features |-> IF enabled
                                          THEN state.active_features \cup {name}
                                          ELSE state.active_features \ {name}]
              ELSE state)

\* The "pins" and "settings" parts: set_pin_assignment / set_setting_value
\* for each item in dict order.
RECURSIVE ImportValues(_, _)
ImportValues(items, dict) ==
  IF items = <<>> THEN dict
  ELSE ImportValues(Tail(items),
         IF Head(items)[1] \in Range(dict.order)
           THEN [dict EXCEPT !.at[Head(items)[1]] = Head(items)[2]]
           ELSE dict)

\* A dict given to import_from_dict: each part is the list of its items, in
\* order; an absent key is an empty list.
ImportData ==
  { [features |-> << <<FA, TRUE>>, <<FS, FALSE>>, <<OO, TRUE>> >>,
     pins |-> <<>>, settings |-> <<>>],
    [features |-> << <<"FEATURE_NEW", TRUE>>, <<FB, FALSE>>, <<FB, TRUE>> >>,
     pins |-> << <<"azimuth_speed_voltage", PStr("4")>>, <<"unknown_pin", PStr("2")>> >>,
     settings |-> << <<"pwm", VNum(3)>>, <<"unknown", VNum(1)>> >>],
    [features |-> <<>>,
     pins |-> << <<"az_position_pulse_pin", PStr("0")>> >>,
     settings |-> <<>>] }

\* ConfigurationManager.import_from_dict
ImportFromDict(data) ==
  LET done == ImportFeatures(data.features,
                [features |-> features, active_features |-> active_features])
  IN /\ features' = done.features
     /\ active_features' = done.active_features
     /\ pins' = ImportValues(data.pins, pins)
     /\ settings' = ImportValues(data.settings, settings)
     /\ fix_trace' = [phase |-> "none", first |-> Absent]
     /\ UNCHANGED <<rules, active_options, board_id, last_validation, call>>
     /\ UNCHANGED <<parserVars, resolverVars>>

\* --------------------------------------------------- feature-state specification
\* A feature table entry as FeatureParser.parse leaves it: defined, defined
\* behind "//", or defined and then undefined.
LoadedFeatureStates ==
  { [is_active |-> TRUE, is_commented |-> FALSE],
    [is_active |-> FALSE, is_commented |-> TRUE],
    [is_active |-> FALSE, is_commented |-> FALSE] }

\* State after load(): active_features is the set of the names whose entry is
\* active (feature_parser.py line 179).
ManagerLoadedFeatures ==
  /\ rules \in RuleTables
  /\ features \in [FeatureNames -> LoadedFeatureStates]
  /\ active_features = { f \in FeatureNames : features[f].is_active }
  /\ active_options \in SUBSET {OO}
  /\ pins = DictOf(PinNames, [n \in Range(PinNames) |-> PStr("3")])
  /\ settings = DictOf(SettingNames, [n \in Range(SettingNames) |-> VNum(2)])
  /\ board_id = Absent
  /\ last_validation = Absent
  /\ fix_trace = [phase |-> "none", first |-> Absent]
  /\ call = Absent

InitFeatures == ParserInit /\ ResolverInit /\ ManagerLoadedFeatures

\* The names callers pass: the features of the table, an option and a name
\* no file defines.
CallerNames == Symbols \cup {"FEATURE_NEW"}

NextFeatures ==
  \/ \E f \in CallerNames : EnableFeature(f)
  \/ \E f \in CallerNames : DisableFeature(f)
  \/ \E data \in ImportData : ImportFromDict(data)
  \/ Validate(Absent)
  \/ ApplyAutoFixes

SpecFeatures == InitFeatures /\ [][NextFeatures]_vars

\* ----------------------------------------------------- editing specification
\* A manager loaded from the first pins and settings files, with a board
\* selected: the configuration is edited, validated, summarised and fixed.
ManagerLoadedForEditing ==
  /\ ManagerLoaded
  /\ active_options = {}
  /\ board_id = Opt("uno")
  /\ pins.at["azimuth_speed_voltage"] = PStr("3")
  /\ settings.at["pwm"] = VNum(5)

InitEdit == ParserInit /\ ResolverInit /\ ManagerLoadedForEditing

NextEdit ==
  \/ EnableFeature(FA)
  \/ DisableFeature(FS)
  \/ \E v \in {PStr("4"), PStr("A9")} : SetPinAssignment("azimuth_speed_voltage", v)
  \/ \E v \in {VNum(6), VNum(3)} : SetSettingValue("pwm", v)
  \/ Validate(Absent)
  \/ GetValidationSummary
  \/ ApplyAutoFixes

SpecEdit == InitEdit /\ [][NextEdit]_vars

\* ------------------------------------------------- the text, read directly
\* These definitions describe the input text itself, without the parser:
\* which lines are directive lines, how many definitions it holds and
\* whether its conditional directives are balanced.
RECURSIVE InCommentAfter(_, _)
InCommentAfter(t, i) ==
  IF i = 0 THEN FALSE
  ELSE LET before == InCommentAfter(t, i - 1)
       IN IF before \/ t[i].open THEN ~t[i].close ELSE FALSE

\* Line i is part of a block comment (it opens one or lies inside one).
CommentedOut(t, i) == InCommentAfter(t, i - 1) \/ t[i].open

DirectiveLines(t) == { i \in DOMAIN t : ~CommentedOut(t, i) }

DefinitionLines(t) == { i \in DirectiveLines(t) : t[i].kind = "define" }

DefinedNames(t) == { t[i].name : i \in DefinitionLines(t) }

\* Number of conditional blocks open after line i (an end directive with no
\* block open closes nothing).
RECURSIVE OpenAfter(_, _)
OpenAfter(t, i) ==
  IF i = 0 THEN 0
  ELSE LET before == OpenAfter(t, i - 1)
       IN IF i \notin DirectiveLines(t) THEN before
          ELSE IF t[i].kind \in IfKinds THEN before + 1
          ELSE IF t[i].kind = "endif" /\ before > 0 THEN before - 1
          ELSE before

StrayEnds(t) ==
  { i \in DirectiveLines(t) : t[i].kind = "endif" /\ OpenAfter(t, i - 1) = 0 }

Balanced(t) == StrayEnds(t) = {} /\ OpenAfter(t, Len(t)) = 0

\* parse() has read the file and returned.
Parsed == pc = "idle" /\ results # <<>> /\ Last(results).shared

ErrorsOfKind(k) == { i \in DOMAIN errors : errors[i].kind = k }

C5_UnclosedBlocks ==
  (Parsed /\ OpenAfter(raw_lines, Len(raw_lines)) >= 1) =>
     /\ ~Last(results).success
     /\ Cardinality(ErrorsOfKind("unclosed")) = OpenAfter(raw_lines, Len(raw_lines))
     /\ { errors[i].line : i \in ErrorsOfKind("unclosed") }
          = { conditional_stack[j].start_line : j \in DOMAIN conditional_stack }
     /\ Len(conditional_stack) = OpenAfter(raw_lines, Len(raw_lines))
     /\ \A i \in DefinitionLines(raw_lines) : raw_lines[i].name \in DOMAIN defines

\* The input ended with two blocks open and a definition inside the inner one.
C5_Witness ==
  /\ Parsed
  /\ OpenAfter(raw_lines, Len(raw_lines)) = 2
  /\ Last(conditional_stack).defines # <<>>
  /\ Cardinality(ErrorsOfKind("unclosed")) = 2

\* ------------------------------------------------------------------ C2
Resolved == Parsed /\ resolves >= 1

\* #ifdef X / #define Y 1 / #else / #define Z 1 / #endif
WorkedExample == << If("ifdef", "X"), Def("Y"), Else, Def("Z"), Endif >>

\* C2 as stated: for the worked example, base set {} resolves to exactly {Z}
\* and base set {X} resolves to exactly {Y}.
C2_Original ==
  (Resolved /\ raw_lines = WorkedExample) =>
     /\ active_defines = {} => closure = {"Z"}
     /\ active_defines = {"X"} => closure = {"Y"}

\* C2 (amended): for the worked example, base set {} resolves to exactly {Z}
\* and base set {X} resolves to exactly {X, Y}: the returned set is seeded
\* with the base set, so X itself is in it.
C2_WorkedExample ==
  (Resolved /\ raw_lines = WorkedExample) =>
     /\ active_defines = {} => closure = {"Z"}
     /\ active_defines = {"X"} => closure = {"X", "Y"}

\* The worked example has been parsed and resolved with base set {X}.
C2_Witness ==
  /\ Resolved
  /\ raw_lines = WorkedExample
  /\ active_defines = {"X"}
  /\ "Y" \in closure

\* ------------------------------------------------------------------ C3
\* Every block of the tree below the given list of blocks.
RECURSIVE BlocksIn(_)
BlocksIn(blocks) ==
  UNION { {blocks[i]} \cup BlocksIn(blocks[i].nested_blocks) : i \in DOMAIN blocks }

TreeBlocks == BlocksIn(conditionals)

BranchNames(ids) == { nodes[i].name : i \in Range(ids) }

BlockAt(n) == CHOOSE b \in TreeBlocks : b.start_line = n

TestsDefined(b) == b.condition_type \in {"ifdef", "if_defined"}

TestsNotDefined(b) == b.condition_type \in {"ifndef", "if_not_defined"}

\* Positions of the log at which the block starting at line n was evaluated.
EvaluationsOf(n) == { i \in DOMAIN eval_log : eval_log[i].block = n }

\* C3: whenever resolve_conditionals evaluates a block, the block is active
\* iff it is a defined-if whose tested symbol is in the accumulator at that
\* moment or a not-defined-if whose tested symbol is not; an active block
\* contributes exactly its true-branch symbols and then has its nested blocks
\* evaluated; an inactive block contributes exactly its false-branch symbols
\* and none of its nested blocks is evaluated.
C3_BlockEvaluation ==
  Resolved =>
     /\ \A i \in DOMAIN eval_log :
          LET e == eval_log[i]
              b == BlockAt(e.block)
          IN /\ \E x \in TreeBlocks : x.start_line = e.block
             /\ e.active <=> \/ TestsDefined(b) /\ b.condition \in e.before
                             \/ TestsNotDefined(b) /\ b.condition \notin e.before
             /\ e.active => e.after = e.before \cup BranchNames(b.defines)
             /\ ~e.active => e.after = e.before \cup BranchNames(b.else_defines)
             /\ e.before = IF i = 1 THEN active_defines ELSE eval_log[i - 1].after
     /\ closure = IF eval_log = <<>> THEN active_defines ELSE Last(eval_log).after
     /\ \A b \in TreeBlocks :
          /\ Cardinality(EvaluationsOf(b.start_line)) <= 1
          /\ EvaluationsOf(b.start_line) # {} <=>
               \/ b.parent = 0
               \/ \E i \in EvaluationsOf(b.parent) : eval_log[i].active
          /\ \A i \in EvaluationsOf(b.start_line), j \in EvaluationsOf(b.parent) : j < i

\* An inactive block that has a nested block was evaluated and one of its
\* false-branch names entered the closure.
C3_Witness ==
  /\ Resolved
  /\ \E i \in DOMAIN eval_log :
       /\ ~eval_log[i].active
       /\ BlockAt(eval_log[i].block).nested_blocks # <<>>
       /\ BlockAt(eval_log[i].block).else_defines # <<>>
       /\ eval_log[i].after # eval_log[i].before

\* ------------------------------------------------------------------ C4
\* C4: for a defined-if block testing B nested inside a defined-if block
\* testing A, the inner block's definitions enter the closure on account of
\* its true branch only when A was in the accumulator when the outer block
\* was tested and B was in it when the inner block was tested; the outer
\* block is evaluated first, and the inner test sees what the outer true
\* branch has just added.
C4_NestedDefinedIf ==
  Resolved =>
     \A o \in TreeBlocks : \A k \in DOMAIN o.nested_blocks :
        LET n == o.nested_blocks[k]
        IN (TestsDefined(o) /\ TestsDefined(n)) =>
             /\ \A i \in EvaluationsOf(n.start_line) :
                  /\ \E j \in EvaluationsOf(o.start_line) :
                       /\ j < i
                       /\ eval_log[j].active
                       /\ o.condition \in eval_log[j].before
                       /\ eval_log[j].before \cup BranchNames(o.defines)
                            \subseteq eval_log[i].before
                  /\ eval_log[i].active <=> n.condition \in eval_log[i].before
                  /\ eval_log[i].active => BranchNames(n.defines) \subseteq closure
                  /\ eval_log[i].active => {o.condition, n.condition} \subseteq closure
             /\ \A j \in EvaluationsOf(o.start_line) :
                  (eval_log[j].active /\ n.condition \in BranchNames(o.defines)) =>
                     \E i \in EvaluationsOf(n.start_line) : eval_log[i].active
             /\ (\A i \in EvaluationsOf(n.start_line) : ~eval_log[i].active) =>
                  \A d \in BranchNames(n.defines) :
                     d \in closure =>
                        \/ d \in active_defines
                        \/ \E i \in DOMAIN eval_log :
                              /\ eval_log[i].block = n.start_line => ~eval_log[i].active
                              /\ d \in eval_log[i].after \ eval_log[i].before

\* The outer block's true branch defined the symbol the inner block tests,
\* which the base set lacked, and the inner block's definition was added.
C4_Witness ==
  /\ Resolved
  /\ \E o \in TreeBlocks : \E k \in DOMAIN o.nested_blocks :
       LET n == o.nested_blocks[k]
       IN /\ TestsDefined(o) /\ TestsDefined(n)
          /\ n.condition \notin active_defines
          /\ n.condition \in BranchNames(o.defines)
          /\ o.condition \in active_defines
          /\ n.defines # <<>>
          /\ BranchNames(n.defines) \subseteq closure
          /\ BranchNames(n.defines) \cap active_defines = {}

\* ------------------------------------------------------------------ C6
\* What the i-th returned ParseResult shows now.
ResultNow(i) == ResultValue(results[i], nodes, defines, conditionals, errors)

\* C6: parse() is a pure function of the input text: two parse() calls on the
\* same parser over unchanged text return the same symbol table, the same
\* top-level blocks and the same error list, and the second call does not
\* alter the result the first call returned.
C6_ParseIsPure ==
  (pc = "idle" /\ Len(results) = 2 /\ results[1].shared /\ results[2].shared) =>
     /\ snapshots[2] = snapshots[1]
     /\ ResultNow(1) = snapshots[1]

\* ------------------------------------------------------------------ C7
\* Every ValidationResult the last call returned or received from a validator.
ReturnedResults ==
  IF ~Has(call) THEN {}
  ELSE {call[1].result}
         \cup { call[1].parts[i][1] : i \in { j \in DOMAIN call[1].parts : Has(call[1].parts[j]) } }

\* C7: every result returned by DependencyValidator.validate,
\* ValueValidator.validate and PinValidator.validate, and the merged result of
\* ConfigurationManager.validate, has passed true exactly when its errors
\* list is empty, whatever warnings and info it carries.
C7_PassedIffNoErrors ==
  \A r \in ReturnedResults : r.passed <=> (r.errors = <<>>)

\* The manager merged a passing dependency result that carries a warning or
\* an info with a failing pin result and a value result.
C7_Witness ==
  /\ Has(call)
  /\ call[1].who = "manager"
  /\ call[1].parts[1][1].passed
  /\ call[1].parts[1][1].warnings # <<>>
  /\ call[1].parts[1][1].info # <<>>
  /\ Has(call[1].parts[2])
  /\ ~call[1].parts[2][1].passed
  /\ call[1].parts[3][1].passed
  /\ call[1].parts[3][1].warnings # <<>>
  /\ ~call[1].result.passed

\* ------------------------------------------------------------------ C8
\* The result of the DependencyValidator.validate call last made, by a client
\* or by the manager, with the active set it was given.
IsDependencyCall == Has(call) /\ call[1].who \in {"dependency", "get_auto_fixes", "manager"}

DependencyResult ==
  IF call[1].who = "manager" THEN call[1].parts[1][1] ELSE call[1].result

DependencyActive == call[1].input.active_features \cup call[1].input.active_options

\* The issues of a list that one rule produced (messages name the rule).
IssuesOf(list, type, msg) ==
  SelectSeq(list, LAMBDA e : e.rule_type = type /\ e.message = msg)

\* C8: a mutual-exclusivity rule that applies (no gating symbol, or the gating
\* symbol active) emits exactly one error, whose affected symbols are the
\* active members, when more than max_count (default 1) members are active,
\* exactly one error when fewer than min_count are active, and nothing when
\* the count lies within [min_count, max_count]; a rule whose gating symbol
\* is inactive emits nothing.
C8_MutualExclusivity ==
  IsDependencyCall =>
    \A k \in DOMAIN rules.mutual_exclusivity :
      LET rule == rules.mutual_exclusivity[k]
          max_count == Get(rule.max_count, 1)
          min_count == Get(rule.min_count, 0)
          applies == ~Has(rule.when) \/ rule.when[1] \in DependencyActive
          active_members == Range(rule.features) \cap DependencyActive
          count == Cardinality(active_members)
          emitted == IssuesOf(DependencyResult.errors, "mutual_exclusivity",
                              rule.error_message)
          others == IssuesOf(DependencyResult.warnings \o DependencyResult.info,
                             "mutual_exclusivity", rule.error_message)
      IN /\ others = <<>>
         /\ ~applies => emitted = <<>>
         /\ (applies /\ count > max_count) =>
               /\ Len(emitted) = 1
               /\ Range(emitted[1].affected_features) = active_members
               /\ Len(emitted[1].affected_features) = count
         /\ (applies /\ count < min_count) => Len(emitted) = 1
         /\ (applies /\ count >= min_count /\ count <= max_count) => emitted = <<>>

\* Two of the three members of an ungated rule are active and the rule has
\* reported its one error, while a rule whose gating symbol is inactive has
\* reported nothing although more than max_count of its members are active.
C8_Witness ==
  /\ IsDependencyCall
  /\ \E k \in DOMAIN rules.mutual_exclusivity :
       LET rule == rules.mutual_exclusivity[k]
       IN /\ ~Has(rule.when)
          /\ Len(rule.features) = 3
          /\ Cardinality(Range(rule.features) \cap DependencyActive) = 2
          /\ Len(IssuesOf(DependencyResult.errors, "mutual_exclusivity",
                          rule.error_message)) = 1
  /\ \E k \in DOMAIN rules.mutual_exclusivity :
       LET rule == rules.mutual_exclusivity[k]
       IN /\ Has(rule.when)
          /\ rule.when[1] \notin DependencyActive
          /\ Cardinality(Range(rule.features) \cap DependencyActive)
               > Get(rule.max_count, 1)
          /\ IssuesOf(DependencyResult.errors, "mutual_exclusivity",
                      rule.error_message) = <<>>

\* ------------------------------------------------------------------ C9
\* The required-dependency errors a result holds for one rule.
RequiredErrors(result, rule) ==
  IssuesOf(result.errors, "required_dependency", rule.error_message)

\* C9: when a subject is active and every symbol of its requires list is
\* inactive, validation yields one auto-fixable error and queues the required
\* symbols, and after apply_auto_fixes() followed by validate() the second
\* result holds no required-dependency error of that rule.
C9_AutoFixResolves ==
  fix_trace.phase = "revalidated" =>
    \A k \in DOMAIN rules.required_dependencies :
      LET rule == rules.required_dependencies[k]
          first == fix_trace.first[1]
          second == last_validation[1]
          reported == SelectSeq(RequiredErrors(first, rule),
                        LAMBDA e : e.affected_features
                                     = <<rule.feature>> \o Get(rule.requires, <<>>))
      IN (Has(rule.requires) /\ ~Has(rule.requires_any) /\ reported # <<>>) =>
            /\ Len(reported) = 1
            /\ reported[1].auto_fixable
            /\ Range(rule.requires[1]) \subseteq Range(first.auto_fixes)
            /\ RequiredErrors(second, rule) = <<>>

\* ------------------------------------------------------------------ C10
\* C10: when a required-dependency subject is active together with symbols of
\* its conflicts_with list, validate emits one error naming the overlap,
\* flagged auto_fixable, and the conflicting symbols are queued for disabling
\* in the auto-fix output (the result's auto_fixes, and the disable set of
\* get_auto_fixes).
C10_ConflictQueued ==
  IsDependencyCall =>
    \A k \in DOMAIN rules.required_dependencies :
      LET rule == rules.required_dependencies[k]
          overlap == Range(Get(rule.conflicts_with, <<>>)) \cap DependencyActive
          emitted == IssuesOf(DependencyResult.errors, "conflict", rule.error_message)
      IN (rule.feature \in DependencyActive /\ overlap # {}) =>
            /\ Len(emitted) = 1
            /\ Range(emitted[1].affected_features) = {rule.feature} \cup overlap
            /\ emitted[1].auto_fixable
            /\ overlap \subseteq Range(DependencyResult.auto_fixes)
            /\ Has(call[1].fixes) => overlap \subseteq call[1].fixes[1].disable

\* ------------------------------------------------------------------ C11
\* The trigger of an auto-enablement rule is active: one of its trigger_any
\* symbols when it has that key, otherwise its trigger symbol or one of its
\* trigger list.
TriggerActive(rule, active) ==
  IF Has(rule.trigger_any) THEN Range(rule.trigger_any[1]) \cap active # {}
  ELSE /\ Has(rule.trigger)
       /\ \/ \E x \in active : rule.trigger[1] = Opt(x)
          \/ \E i \in DOMAIN rule.trigger[1] : rule.trigger[1][i] \in active

\* The issues of a list that one rule produced with a given auto_fixable flag.
FlaggedIssuesOf(list, type, msg, fixable) ==
  SelectSeq(IssuesOf(list, type, msg), LAMBDA e : e.auto_fixable = fixable)

\* C11: after DependencyValidator.validate a symbol is in auto_fixes iff it is
\* inactive and listed in the requires list of a required-dependency rule
\* whose subject is active or in the auto_enable list of an auto-enablement
\* rule whose trigger is active; each such requires violation is one
\* auto-fixable ERROR, each such auto-enablement one auto-fixable INFO, and
\* requires_any violations (ERROR) and conditional-disable violations
\* (WARNING) are not auto-fixable and queue nothing.
C11_AutoFixQueue ==
  IsDependencyCall =>
    LET active == DependencyActive
        res == DependencyResult
        required == rules.required_dependencies
        auto == rules.auto_enablement
        disable == rules.conditional_disable
        Missing(list) == { x \in Range(list) : x \notin active }
        by_requires == UNION { Missing(required[k].requires[1]) :
                                 k \in { j \in DOMAIN required :
                                           /\ Has(required[j].requires)
                                           /\ required[j].feature \in active } }
        by_auto == UNION { Missing(auto[k].auto_enable) :
                             k \in { j \in DOMAIN auto : TriggerActive(auto[j], active) } }
    IN /\ Range(res.auto_fixes) = by_requires \cup by_auto
       /\ \A k \in DOMAIN required :
            LET rule == required[k]
                violated == /\ rule.feature \in active
                            /\ Has(rule.requires)
                            /\ Missing(rule.requires[1]) # {}
                any_violated == /\ rule.feature \in active
                                /\ Has(rule.requires_any)
                                /\ Range(rule.requires_any[1]) \cap active = {}
                fixable == FlaggedIssuesOf(res.errors, "required_dependency",
                                           rule.error_message, TRUE)
                unfixable == FlaggedIssuesOf(res.errors, "required_dependency",
                                             rule.error_message, FALSE)
            IN /\ Len(fixable) = (IF violated THEN 1 ELSE 0)
               /\ violated => Range(fixable[1].affected_features)
                                = {rule.feature} \cup Missing(rule.requires[1])
               /\ Len(unfixable) = (IF any_violated THEN 1 ELSE 0)
       /\ \A k \in DOMAIN auto :
            LET rule == auto[k]
                due == TriggerActive(rule, active) /\ Missing(rule.auto_enable) # {}
                infos == IssuesOf(res.info, "auto_enablement", rule.message)
            IN /\ Len(infos) = (IF due THEN 1 ELSE 0)
               /\ due => /\ infos[1].auto_fixable
                         /\ Range(infos[1].affected_features) = Missing(rule.auto_enable)
       /\ \A k \in DOMAIN disable :
            LET rule == disable[k]
                violated == /\ rule.feature \in active
                            /\ Has(rule.requires)
                            /\ Missing(rule.requires[1]) # {}
                warned == IssuesOf(res.warnings, "conditional_disable", rule.message)
            IN Len(warned) = (IF violated THEN 1 ELSE 0)
       /\ \A i \in DOMAIN res.warnings : ~res.warnings[i].auto_fixable

\* One result holds an auto-fixable requires error, a requires_any error that
\* is not auto-fixable and whose list is not queued, and an auto-enablement
\* INFO.
C11_Witness ==
  /\ IsDependencyCall
  /\ \E i \in DOMAIN DependencyResult.errors :
       /\ DependencyResult.errors[i].rule_type = "required_dependency"
       /\ DependencyResult.errors[i].auto_fixable
  /\ \E i \in DOMAIN DependencyResult.errors :
       /\ DependencyResult.errors[i].rule_type = "required_dependency"
       /\ ~DependencyResult.errors[i].auto_fixable
       /\ \E x \in Range(DependencyResult.errors[i].affected_features) :
            x \notin DependencyActive /\ x \notin Range(DependencyResult.auto_fixes)
  /\ DependencyResult.info # <<>>
  /\ DependencyResult.auto_fixes # <<>>

\* ------------------------------------------------------------------ C12
\* The concatenation of a sequence of sequences.
RECURSIVE Flatten(_)
Flatten(lists) == IF lists = <<>> THEN <<>> ELSE Head(lists) \o Flatten(Tail(lists))

\* What each rule of a family yields when it is evaluated alone, on an empty
\* result, against the input active set.
MutexAlone(active) ==
  [k \in DOMAIN rules.mutual_exclusivity |->
     MutexStep(rules.mutual_exclusivity[k], active, NewResult)]

RequiredAlone(active) ==
  [k \in DOMAIN rules.required_dependencies |->
     RequiredStep(rules.required_dependencies[k], active, NewResult)]

AutoAlone(active) ==
  [k \in DOMAIN rules.auto_enablement |->
     AutoStep(rules.auto_enablement[k], active, NewResult)]

DisableAlone(active) ==
  [k \in DOMAIN rules.conditional_disable |->
     DisableStep(rules.conditional_disable[k], active, NewResult)]

\* C12: validate evaluates every rule of the four families against the same
\* input active set, none depending on what another rule produced, never
\* stops at the first violation, and appends the issues to each list in
\* family order (exclusivity, required, auto-enable, conditional-disable) and
\* in declaration order within a family.
C12_AllRulesInOrder ==
  IsDependencyCall =>
    LET active == DependencyActive
        res == DependencyResult
        m == MutexAlone(active)
        r == RequiredAlone(active)
        a == AutoAlone(active)
        d == DisableAlone(active)
    IN /\ res.errors = Flatten([k \in DOMAIN m |-> m[k].errors])
                         \o Flatten([k \in DOMAIN r |-> r[k].errors])
       /\ res.info = Flatten([k \in DOMAIN a |-> a[k].info])
       /\ res.warnings = Flatten([k \in DOMAIN d |-> d[k].warnings])
       /\ res.auto_fixes = Flatten([k \in DOMAIN r |-> r[k].auto_fixes])
                             \o Flatten([k \in DOMAIN a |-> a[k].auto_fixes])

\* A result that holds an exclusivity error followed by the errors of two
\* different required-dependency rules, and a later family's issue as well.
C12_Witness ==
  /\ IsDependencyCall
  /\ Len(DependencyResult.errors) >= 3
  /\ DependencyResult.errors[1].rule_type = "mutual_exclusivity"
  /\ \E i, j \in DOMAIN DependencyResult.errors :
       /\ i < j
       /\ DependencyResult.errors[i].rule_type = "required_dependency"
       /\ DependencyResult.errors[j].rule_type = "required_dependency"
       /\ DependencyResult.errors[i].message # DependencyResult.errors[j].message
  /\ DependencyResult.info # <<>>

\* ------------------------------------------------------------------ C13
\* What validate() computes from the configuration a call was made on, for
\* any choice of board.
FreshResults(input) ==
  LET dep == dependency_validate(rules, input.active_features, input.active_options)
      value_result == value_validate(input.settings)
  IN { Merge(dep, value_result) }
       \cup { Merge(Merge(dep, pin_validate(b, input.pins, input.active_features)),
                    value_result) : b \in {"uno", "zz"} }

\* C13: the validation outcome the manager uses is never stale: after any
\* sequence of enable_feature, disable_feature, set_pin_assignment and
\* set_setting_value calls, get_validation_summary() and apply_auto_fixes()
\* operate on a ValidationResult computed from the configuration as it is
\* when they are called.
C13_NeverStale ==
  (Has(call) /\ call[1].who \in {"get_validation_summary", "apply_auto_fixes"}) =>
     call[1].result \in FreshResults(call[1].input)

\* ------------------------------------------------------------------ C14
\* The symbols the auto-fixable issues of a result name.
NamedByFixableIssues(result) ==
  UNION { Range(e.affected_features) :
            e \in { x \in Range(result.errors \o result.warnings \o result.info) :
                      x.auto_fixable } }

\* C14: apply_auto_fixes leaves the key set of the feature table, every pin
\* assignment, every setting value and every option as they are, and changes
\* the state of no symbol outside the auto-fix set of the validation it
\* applies, a set of symbols named by auto-fixable issues; the symbols it
\* changes become active, none is renamed or removed.
C14_ApplyFrame ==
  [][ApplyAutoFixes =>
       LET queued == Range(last_validation'[1].auto_fixes)
       IN /\ DOMAIN features' = DOMAIN features
          /\ pins' = pins
          /\ settings' = settings
          /\ active_options' = active_options
          /\ queued \subseteq NamedByFixableIssues(last_validation'[1])
          /\ \A f \in DOMAIN features :
               features'[f] # features[f] => f \in queued /\ features'[f].is_active
          /\ active_features \subseteq active_features'
          /\ active_features' \ active_features \subseteq queued]_vars

\* apply_auto_fixes has enabled a queued feature and has skipped a queued
\* symbol that is not in the feature table.
C14_Witness ==
  /\ Has(call)
  /\ call[1].who = "apply_auto_fixes"
  /\ call[1].count >= 1
  /\ \E x \in Range(call[1].result.auto_fixes) :
       x \in active_features /\ x \notin call[1].input.active_features
  /\ \E x \in Range(call[1].result.auto_fixes) : x \notin DOMAIN features

\* ------------------------------------------------------------------ C15
\* The PinValidator.validate call last made on a known board, by a client or
\* by the manager, with the pin assignments it was given.
IsPinCall ==
  /\ Has(call)
  /\ \/ call[1].who = "pin"
     \/ call[1].who = "manager" /\ Has(call[1].parts[2])
  /\ call[1].input.board[1] \in DOMAIN Boards

PinResult == IF call[1].who = "manager" THEN call[1].parts[2][1] ELSE call[1].result

PinInput == call[1].input.pins

\* A value that stands for a disabled pin: 0 as a number or as text, None,
\* 'disabled'.
Disabled(v) == v \in {PInt(0), PStr("0"), PNone, PStr("disabled")}

NamesAssigned(v) == { n \in Range(PinInput.order) : PinInput.at[n] = v }

ConflictErrors == SelectSeq(PinResult.errors, LAMBDA e : e.rule_type = "pin_conflict")

\* C15: on a known board every value other than disabled that is assigned to
\* two or more logical names produces exactly one pin_conflict error whose
\* affected list is all the colliding names; a value assigned to one name
\* produces none; names that are disabled never conflict with each other.
C15_PinConflicts ==
  IsPinCall =>
    LET values == { PinInput.at[n] : n \in Range(PinInput.order) }
        shared == { v \in values : ~Disabled(v) /\ Cardinality(NamesAssigned(v)) >= 2 }
        About(v) == SelectSeq(ConflictErrors,
                              LAMBDA e : Range(e.affected_features) \cap NamesAssigned(v) # {})
    IN /\ \A v \in shared :
            /\ Len(About(v)) = 1
            /\ Range(About(v)[1].affected_features) = NamesAssigned(v)
            /\ Len(About(v)[1].affected_features) = Cardinality(NamesAssigned(v))
       /\ \A v \in values \ shared : About(v) = <<>>
       /\ Len(ConflictErrors) = Cardinality(shared)

\* Three names share one pin and are reported by one error naming the three,
\* while the fourth name, disabled, is not reported.
C15_Witness ==
  /\ IsPinCall
  /\ \E v \in { PinInput.at[n] : n \in Range(PinInput.order) } :
       ~Disabled(v) /\ Cardinality(NamesAssigned(v)) = 3
  /\ \E n \in Range(PinInput.order) : Disabled(PinInput.at[n])
  /\ Len(ConflictErrors) = 1
  /\ Len(ConflictErrors[1].affected_features) = 3

\* ------------------------------------------------------------------ C16
\* A value delegated to a remote unit: a number greater than 99.
Delegated(v) == v.t = "int" /\ v.n > 99

\* The errors of the pin result that name a logical pin.
PinErrorsNaming(n, type) ==
  SelectSeq(PinResult.errors,
            LAMBDA e : e.rule_type = type /\ n \in Range(e.affected_features))

\* C16: a logical pin assigned a value greater than 99 is exempt from all
\* local checks of PinValidator.validate: no capability error even if its name
\* requires PWM or interrupt capability, no conflict error even if another
\* name has the same delegated value, and no range error.
C16_DelegatedExempt ==
  IsPinCall =>
    \A n \in Range(PinInput.order) :
      Delegated(PinInput.at[n]) =>
        /\ PinErrorsNaming(n, "pin_capability") = <<>>
        /\ PinErrorsNaming(n, "pin_conflict") = <<>>
        /\ PinErrorsNaming(n, "pin_range") = <<>>

\* ------------------------------------------------------------------ C17
\* int(pin_string) for the pin strings of the pins files; the strings that do
\* not parse as a number have none.
PinNumber(v) ==
  CASE v = PStr("0") -> Opt(0)
    [] v = PStr("2") -> Opt(2)
    [] v = PStr("3") -> Opt(3)
    [] v = PStr("4") -> Opt(4)
    [] v = PStr("77") -> Opt(77)
    [] v.t = "int" -> Opt(v.n)
    [] OTHER -> Absent

\* The digital pin assigned to a logical name, when the name is assigned one
\* that is neither disabled nor delegated.
DigitalPinOf(n) ==
  LET number == PinNumber(PinInput.at[n])
  IN IF Has(number) /\ number[1] # 0 /\ number[1] <= 99 THEN number ELSE Absent

IsManagerPinCall == IsPinCall /\ call[1].who = "manager"

\* C17: ConfigurationManager.validate with a known board selected reports a
\* pin_capability error for every logical pin that requires PWM or interrupt
\* capability and whose assigned digital pin, neither disabled nor delegated,
\* lacks that capability in the board table.
C17_ManagerCapability ==
  IsManagerPinCall =>
    LET table == Boards[call[1].input.board[1]]
    IN \A n \in Range(PinInput.order) :
         /\ (/\ n \in Range(PIN_REQUIREMENTS.pwm)
             /\ Has(DigitalPinOf(n))
             /\ DigitalPinOf(n)[1] \notin Range(table.pwm))
              => PinErrorsNaming(n, "pin_capability") # <<>>
         /\ (/\ n \in Range(PIN_REQUIREMENTS.interrupt)
             /\ Has(DigitalPinOf(n))
             /\ DigitalPinOf(n)[1] \notin Range(table.interrupt))
              => PinErrorsNaming(n, "pin_capability") # <<>>

\* ------------------------------------------------------------------ C18
IsRepeatedCall == Has(call) /\ call[1].who = "dependency_twice"

FirstResult == call[1].parts[1][1]

SecondResult == call[1].parts[2][1]

IsValueCall == Has(call) /\ call[1].who \in {"value", "manager"}

ValueResult == IF call[1].who = "manager" THEN call[1].parts[3][1] ELSE call[1].result

ValueInput == call[1].input.settings

\* A rule that has only min/max and warning_min/warning_max bounds.
BoundsOnly(rule) ==
  /\ ~Has(rule.allowed_values)
  /\ ~Has(rule.array_min_size)
  /\ ~Has(rule.array_max_size)
  /\ ~Has(rule.consistency_check)

\* The rules governing a setting, in file order.
RulesOf(n) == SelectSeq(ValueRules, LAMBDA rule : n \in Range(rule.settings))

\* The settings of the input that are governed, and only by such rules.
BoundedSettings ==
  { n \in Range(ValueInput.order) :
      RulesOf(n) # <<>> /\ \A k \in DOMAIN RulesOf(n) : BoundsOnly(RulesOf(n)[k]) }

Numeric(v) == v.t \in {"num", "str"}

Scalar(v) == v.t # "list"

Outside(x, rule) ==
  (Has(rule.min) /\ x < rule.min[1]) \/ (Has(rule.max) /\ x > rule.max[1])

OutsideWarning(x, rule) ==
  \/ Has(rule.warning_min) /\ x < rule.warning_min[1]
  \/ Has(rule.warning_max) /\ x > rule.warning_max[1]

ValueErrorsNaming(n) ==
  SelectSeq(ValueResult.errors, LAMBDA e : n \in Range(e.affected_features))

ValueWarningsNaming(n) ==
  SelectSeq(ValueResult.warnings, LAMBDA e : n \in Range(e.affected_features))

\* C19: for a numeric scalar setting governed by rules that have only min/max
\* and warning_min/warning_max bounds, ValueValidator.validate emits an error
\* and sets passed false exactly when the value is below min or above max,
\* emits a warning and no error, leaving passed as it is, when the value is
\* below warning_min or above warning_max, and emits no issue at all for a
\* scalar that is not a number and does not parse as one.
C19_ScalarBounds ==
  IsValueCall =>
    /\ \A n \in BoundedSettings :
         LET v == ValueInput.at[n]
             x == v.n
             breached == SelectSeq(RulesOf(n), LAMBDA rule : Outside(x, rule))
             warned == SelectSeq(RulesOf(n), LAMBDA rule : OutsideWarning(x, rule))
         IN /\ (Scalar(v) /\ Numeric(v)) =>
                 /\ Len(ValueErrorsNaming(n)) = Len(breached)
                 /\ Len(ValueWarningsNaming(n)) = Len(warned)
                 /\ \A k \in DOMAIN ValueErrorsNaming(n) :
                      /\ ValueErrorsNaming(n)[k].severity = "error"
                      /\ ValueErrorsNaming(n)[k].rule_type = "value_range"
                 /\ \A k \in DOMAIN ValueWarningsNaming(n) :
                      /\ ValueWarningsNaming(n)[k].severity = "warning"
                      /\ ValueWarningsNaming(n)[k].rule_type = "value_range"
                 /\ breached # <<>> => ~ValueResult.passed
            /\ (Scalar(v) /\ ~Numeric(v)) =>
                 /\ ValueErrorsNaming(n) = <<>>
                 /\ ValueWarningsNaming(n) = <<>>
    /\ ValueResult.passed <=> (ValueResult.errors = <<>>)

\* One call in which a numeric string is below a minimum (an error), and a
\* value that breaches nothing but a warning bound gets a warning only.
C19_Witness ==
  /\ IsValueCall
  /\ \E n \in BoundedSettings :
       /\ ValueInput.at[n].t = "str"
       /\ ValueErrorsNaming(n) # <<>>
  /\ \E n \in BoundedSettings :
       /\ Numeric(ValueInput.at[n])
       /\ ValueErrorsNaming(n) = <<>>
       /\ ValueWarningsNaming(n) # <<>>

\* A call on a scalar that is not a number, which yields no issue, whose
\* result passes while carrying a warning for another setting.
C19_NonNumericWitness ==
  /\ IsValueCall
  /\ \E n \in BoundedSettings : ValueInput.at[n] = VText
  /\ ValueResult.passed
  /\ ValueResult.warnings # <<>>

\* ------------------------------------------------------------------ C20
\* The #else lines of the text that belong to the block opened at line p:
\* they follow it at its own nesting depth, before it is closed.
ElseLinesOf(t, p) ==
  { k \in DirectiveLines(t) :
      /\ k > p
      /\ t[k].kind = "else"
      /\ OpenAfter(t, k) = OpenAfter(t, p)
      /\ \A j \in p..k : OpenAfter(t, j) >= OpenAfter(t, p) }

\* The block is lexically nested beneath the #else of the block enclosing it.
BeneathElse(b) ==
  /\ b.parent # 0
  /\ \E k \in ElseLinesOf(raw_lines, b.parent) : k < b.start_line

\* C20: a conditional block that is lexically nested beneath the #else of
\* another block is never evaluated by resolve_conditionals: for every base
\* set its test is not made and none of its symbols is added to the closure
\* on account of that block.
C20_BeneathElseNeverEvaluated ==
  Resolved =>
    \A b \in TreeBlocks : BeneathElse(b) => EvaluationsOf(b.start_line) = {}

\* ------------------------------------------------------------------ C21
\* C21: the set returned by resolve_conditionals is a fixed point: resolving
\* again with the returned set as the base set returns the same set, for
\* every block tree and base set.
C21_FixedPoint ==
  Resolved => resolve_conditionals(closure).result = closure

\* ------------------------------------------------------------------ C22
\* The number of blocks open after each line of the text, from line i on,
\* given the number open and the block-comment state before line i.
RECURSIVE DepthsFrom(_, _, _, _)
DepthsFrom(t, i, before, in_comment) ==
  IF i > Len(t) THEN <<>>
  ELSE LET commented == in_comment \/ t[i].open
           after == IF commented THEN before
                    ELSE IF t[i].kind \in IfKinds THEN before + 1
                    ELSE IF t[i].kind = "endif" /\ before > 0 THEN before - 1
                    ELSE before
       IN <<[depth |-> after, directive |-> ~commented]>>
            \o DepthsFrom(t, i + 1, after, commented /\ ~t[i].close)

\* The text with, for each line, whether it is a directive line and how many
\* blocks are open after it.
Annotated(t) == [lines |-> t, at |-> DepthsFrom(t, 1, 0, FALSE)]

DepthAfter(a, i) == IF i = 0 THEN 0 ELSE a.at[i].depth

\* The blocks open after line i, named by their start lines: the begin-if
\* lines not closed by then.
OpenBlocksAt(a, i) ==
  { p \in 1..i :
      /\ a.at[p].directive
      /\ a.lines[p].kind \in IfKinds
      /\ \A j \in p..i : a.at[j].depth >= a.at[p].depth }

Max(S) == CHOOSE x \in S : \A y \in S : y <= x

\* The block that is innermost-open after line i (0: none).
InnermostAt(a, i) == IF OpenBlocksAt(a, i) = {} THEN 0 ELSE Max(OpenBlocksAt(a, i))

\* The else directives that belong to the block opened at line p.
ElseLinesIn(a, p) ==
  { k \in DOMAIN a.lines :
      /\ p # 0 /\ k > p
      /\ a.at[k].directive
      /\ a.lines[k].kind = "else"
      /\ p \in OpenBlocksAt(a, k)
      /\ a.at[k].depth = a.at[p].depth }

\* Every block object parse() has built: those in the tree and those open.
AllBlocks == BlocksIn(conditionals) \cup BlocksIn(conditional_stack)

Count(list, id) == Cardinality({ k \in DOMAIN list : list[k] = id })

\* The end directives that closed a block.
ClosingLines(a) ==
  { e \in DOMAIN a.lines :
      a.at[e].directive /\ a.lines[e].kind = "endif" /\ DepthAfter(a, e - 1) > 0 }

\* The start lines of a set of blocks in increasing order.
RECURSIVE Ascending(_)
Ascending(S) == IF S = {} THEN <<>> ELSE Ascending(S \ {Max(S)}) \o <<Max(S)>>

\* C22: during parse(), each definition inside conditional blocks is in
\* exactly one list of the block that was innermost-open at its line (the
\* false-branch list if an else directive of that block precedes it, otherwise
\* the true-branch list) and in no list of any other block; an end directive
\* closes only the innermost open block, records its end line and attaches it
\* to the nested list of the block then innermost-open, or to the top-level
\* list if none; definitions after it are routed by that enclosing block's own
\* else state.
C22_DefinitionRouting ==
  LET a == Annotated(raw_lines)
      blocks == AllBlocks
  IN /\ \A id \in DOMAIN nodes :
          LET n == nodes[id].line_number
              p == InnermostAt(a, n - 1)
              after_else == \E k \in ElseLinesIn(a, p) : k < n
          IN /\ p # 0 => \E b \in blocks : b.start_line = p
             /\ \A b \in blocks :
                  /\ Count(b.defines, id) =
                       IF b.start_line = p /\ ~after_else THEN 1 ELSE 0
                  /\ Count(b.else_defines, id) =
                       IF b.start_line = p /\ after_else THEN 1 ELSE 0
     /\ \A e \in ClosingLines(a) :
          LET p == InnermostAt(a, e - 1)
              q == InnermostAt(a, e)
          IN /\ \E b \in blocks : b.start_line = p /\ b.end_line = e
             /\ \A b \in blocks : b.end_line = e => b.start_line = p
             /\ IF q = 0
                  THEN \E k \in DOMAIN conditionals : conditionals[k].start_line = p
                  ELSE \E b \in blocks :
                         /\ b.start_line = q
                         /\ \E k \in DOMAIN b.nested_blocks :
                              b.nested_blocks[k].start_line = p
     /\ [k \in DOMAIN conditional_stack |-> conditional_stack[k].start_line]
          = Ascending(OpenBlocksAt(a, Len(raw_lines)))
     /\ \A k \in DOMAIN conditional_stack : conditional_stack[k].end_line = 0

\* A block nested beneath an else directive has been closed into the
\* enclosing block, and the definition that follows it has gone to the
\* enclosing block's false-branch list, the nested block's own definition
\* staying in the nested block.
C22_Witness ==
  \E b \in AllBlocks :
    /\ b.nested_blocks # <<>>
    /\ b.nested_blocks[1].defines # <<>>
    /\ b.else_defines # <<>>
    /\ b.defines = <<>>
    /\ nodes[b.else_defines[1]].line_number > b.nested_blocks[1].end_line

\* ------------------------------------------------------------------ C23
\* The undefine directives of the text naming n that lie after line i and
\* before line j.
UndefsBetween(t, n, i, j) ==
  { k \in DirectiveLines(t) : i < k /\ k < j /\ t[k].kind = "undef" /\ t[k].name = n }

DefinitionLinesOf(t, n) == { i \in DefinitionLines(t) : t[i].name = n }

\* The definition line of the same name that follows line i, or the end of
\* the text.
NextDefinition(t, i) ==
  LET later == { j \in DefinitionLinesOf(t, t[i].name) : j > i }
  IN IF later = {} THEN Len(t) + 1 ELSE CHOOSE j \in later : \A k \in later : j <= k

\* C23: an undefine directive naming a symbol already in the table sets that
\* symbol's active flag to false and keeps it in the table, and an undefine
\* naming an unknown symbol changes nothing; the table entry of a name is the
\* one built from its last definition line, so a definition of the same name
\* after the undefine makes the symbol active again.
C23_Undefine ==
  LET t == raw_lines
  IN /\ DOMAIN defines = DefinedNames(t)
     /\ Len(nodes) = Cardinality(DefinitionLines(t))
     /\ \A n \in DOMAIN defines :
          /\ nodes[defines[n]].name = n
          /\ nodes[defines[n]].line_number \in DefinitionLinesOf(t, n)
          /\ \A i \in DefinitionLinesOf(t, n) : i <= nodes[defines[n]].line_number
     /\ \A id \in DOMAIN nodes :
          LET i == nodes[id].line_number
          IN /\ i \in DefinitionLines(t)
             /\ nodes[id].is_commented = t[i].commented
             /\ nodes[id].is_active <=>
                  /\ ~t[i].commented
                  /\ UndefsBetween(t, t[i].name, i, NextDefinition(t, i)) = {}

\* A symbol was defined, undefined and defined again: the table holds the
\* entry of the second definition, active, and the first entry is inactive.
C23_Witness ==
  /\ "X" \in DOMAIN defines
  /\ \E i, k, j \in DOMAIN raw_lines :
       /\ i < k /\ k < j
       /\ i \in DefinitionLinesOf(raw_lines, "X")
       /\ UndefsBetween(raw_lines, "X", i, j) = {k}
       /\ j \in DefinitionLinesOf(raw_lines, "X")
       /\ nodes[defines["X"]].line_number = j
       /\ nodes[defines["X"]].is_active
       /\ \E id \in DOMAIN nodes : nodes[id].line_number = i /\ ~nodes[id].is_active
                                    /\ ~nodes[id].is_commented

\* An undefine of a symbol that no line has defined has been read.
C23_UnknownWitness ==
  /\ \E k \in DirectiveLines(raw_lines) :
       /\ raw_lines[k].kind = "undef"
       /\ DefinitionLinesOf(raw_lines, raw_lines[k].name) = {}
  /\ nodes # <<>>

\* ------------------------------------------------------------------ C24
\* The text with every "//" prefix removed.
Strip(t) == [i \in DOMAIN t |-> [t[i] EXCEPT !.commented = FALSE]]

\* What parse() has built after reading the lines of a text that has no
\* block comments, line by line: the block stack, the node heap, the table,
\* the top-level list and the errors.
RECURSIVE ParsedText(_, _)
ParsedText(t, n) ==
  IF n = 0
    THEN [stack |-> <<>>, nodes |-> <<>>, defines |-> EmptyMap, conditionals |-> <<>>,
          errors |-> <<>>]
    ELSE LET st == ParsedText(t, n - 1)
             l == t[n]
         IN CASE l.kind = "define" ->
                   LET scope == IF st.stack # <<>> THEN Last(st.stack).condition ELSE None
                       id == Len(st.nodes) + 1
                   IN [st EXCEPT !.nodes = Append(@, DefineNode(l, n, scope)),
                                 !.defines = Put(@, l.name, id),
                                 !.stack = IF @ # <<>> THEN SetTop(@, AddDefine(Last(@), id))
                                           ELSE @]
              [] l.kind \in IfKinds ->
                   [st EXCEPT !.stack = Append(@, ConditionalBlock(l, n, @))]
              [] l.kind = "else" ->
                   [st EXCEPT !.stack = IF @ # <<>>
                                          THEN SetTop(@, [Last(@) EXCEPT !.in_else = TRUE])
                                          ELSE @]
              [] l.kind = "endif" ->
                   IF st.stack # <<>>
                     THEN [st EXCEPT !.stack = CloseInto(st.stack, st.conditionals, n).stack,
                                     !.conditionals =
                                        CloseInto(st.stack, st.conditionals, n).conds]
                     ELSE [st EXCEPT !.errors = Append(@, [kind |-> "endif", line |-> n])]
              [] l.kind = "undef" ->
                   IF l.name \in DOMAIN st.defines
                     THEN [st EXCEPT !.nodes[st.defines[l.name]].is_active = FALSE]
                     ELSE st
              [] OTHER -> st

\* A node without its flags.
Unflagged(node) == [node EXCEPT !.is_active = TRUE, !.is_commented = FALSE]

\* C24: each directive shape has the same structural effect when prefixed by
\* a line-comment marker as without it: what parse() has built from a text is
\* what it builds from the text with the prefixes removed (the same block
\* stack, block tree, branch lists, table keys and errors, a comment-prefixed
\* undefine deactivating its symbol), except that a comment-prefixed
\* definition yields a symbol with active=false and commented=true.
C24_CommentPrefix ==
  LET plain == ParsedText(Strip(raw_lines), Len(raw_lines))
  IN /\ conditional_stack = plain.stack
     /\ conditionals = plain.conditionals
     /\ defines = plain.defines
     /\ SelectSeq(errors, LAMBDA e : e.kind = "endif") = plain.errors
     /\ DOMAIN nodes = DOMAIN plain.nodes
     /\ \A id \in DOMAIN nodes :
          /\ Unflagged(nodes[id]) = Unflagged(plain.nodes[id])
          /\ nodes[id].is_commented = raw_lines[nodes[id].line_number].commented
          /\ ~plain.nodes[id].is_commented
          /\ nodes[id].is_active <=>
               plain.nodes[id].is_active /\ ~raw_lines[nodes[id].line_number].commented

\* A comment-prefixed begin-if, else and end have opened, switched and closed
\* a block whose false-branch list holds a definition.
C24_Witness ==
  /\ \E b \in BlocksIn(conditionals) :
       /\ raw_lines[b.start_line].commented
       /\ raw_lines[b.end_line].commented
       /\ b.else_defines # <<>>
       /\ \E k \in DOMAIN raw_lines :
            raw_lines[k].kind = "else" /\ raw_lines[k].commented
                                       /\ b.start_line < k /\ k < b.end_line

\* A comment-prefixed undefine has deactivated a symbol defined without a
\* prefix, and a comment-prefixed definition is in the table, inactive.
C24_UndefineWitness ==
  /\ \E id \in DOMAIN nodes :
       /\ ~nodes[id].is_commented
       /\ ~nodes[id].is_active
       /\ \A k \in DOMAIN raw_lines : raw_lines[k].kind = "undef" => raw_lines[k].commented
  /\ "X" \in DOMAIN defines
  /\ nodes[defines["X"]].is_commented
  /\ ~nodes[defines["X"]].is_active

\* ------------------------------------------------------------------ C25
\* C25: apply_auto_fixes returns the number of features it auto-enabled: the
\* number of distinct features whose state it changed from inactive to
\* active.
C25_CountsEnabled ==
  [][ApplyAutoFixes =>
       call'[1].count =
         Cardinality({ f \in DOMAIN features :
                         ~features[f].is_active /\ features'[f].is_active })]_vars

\* ------------------------------------------------------------------ C26
\* How many times the block opened at line p occurs in the tree below a list
\* of blocks.
RECURSIVE OccurrencesIn(_, _)
OccurrencesIn(blocks, p) ==
  IF blocks = <<>> THEN 0
  ELSE (IF Head(blocks).start_line = p THEN 1 ELSE 0)
         + OccurrencesIn(Head(blocks).nested_blocks, p)
         + OccurrencesIn(Tail(blocks), p)

\* The blocks the text closes, named by their start lines.
ClosedBlocks(a) == { InnermostAt(a, e - 1) : e \in ClosingLines(a) }

\* The line that closed the block opened at line p.
ClosingLineOf(a, p) == CHOOSE e \in ClosingLines(a) : InnermostAt(a, e - 1) = p

\* C26 as stated: after parse(), every block reachable from the top-level
\* list has end_line > start_line, each closed block occurs exactly once in
\* the tree, and blocks still open at the end of input occur nowhere in it.
C26_Original ==
  Parsed =>
    LET a == Annotated(raw_lines)
    IN /\ \A b \in TreeBlocks : b.end_line > b.start_line
       /\ \A p \in ClosedBlocks(a) : OccurrencesIn(conditionals, p) = 1
       /\ \A p \in OpenBlocksAt(a, Len(raw_lines)) : OccurrencesIn(conditionals, p) = 0

\* C26 amended: after parse(), every block reachable from the top-level list
\* has end_line > start_line; each closed block was attached exactly once, to
\* the top-level list iff no block was open when it was closed, otherwise to
\* the nested list of the block that was innermost-open at that moment, which
\* is the block its parent reference names; it is reachable from the
\* top-level list, exactly once, iff every block enclosing it was closed as
\* well; blocks still open at the end of input occur nowhere in the tree.
C26_BlockTree ==
  Parsed =>
    LET a == Annotated(raw_lines)
        still_open == OpenBlocksAt(a, Len(raw_lines))
    IN /\ \A b \in TreeBlocks : b.end_line > b.start_line
       /\ \A p \in ClosedBlocks(a) :
            LET e == ClosingLineOf(a, p)
                q == InnermostAt(a, e)
            IN /\ OccurrencesIn(conditionals \o conditional_stack, p) = 1
               /\ q = 0 <=> \E k \in DOMAIN conditionals : conditionals[k].start_line = p
               /\ q # 0 =>
                    \E b \in AllBlocks :
                      /\ b.start_line = q
                      /\ \E k \in DOMAIN b.nested_blocks : b.nested_blocks[k].start_line = p
               /\ \A b \in AllBlocks :
                    b.start_line = p => b.parent = q /\ b.end_line = e
               /\ OccurrencesIn(conditionals, p) =
                    IF OpenBlocksAt(a, e) \cap still_open = {} THEN 1 ELSE 0
       /\ \A p \in still_open :
            /\ OccurrencesIn(conditionals, p) = 0
            /\ \A b \in AllBlocks : OccurrencesIn(b.nested_blocks, p) = 0
       /\ { b.start_line : b \in TreeBlocks } \subseteq ClosedBlocks(a)

\* parse() has returned a tree in which a closed block sits in the nested
\* list of another closed block, which its parent reference names.
C26_Witness ==
  /\ Parsed
  /\ \E b \in TreeBlocks : b.nested_blocks # <<>> /\ b.nested_blocks[1].parent = b.start_line

\* ------------------------------------------------------------------ C27
\* The names defined on the lines of the text that lie inside a block, all
\* of whose enclosing blocks the text closes.
NamesInClosedBlocks(a) ==
  { a.lines[i].name :
      i \in { k \in DOMAIN a.lines :
                /\ a.at[k].directive
                /\ a.lines[k].kind = "define"
                /\ OpenBlocksAt(a, k - 1) # {}
                /\ OpenBlocksAt(a, k - 1) \cap OpenBlocksAt(a, Len(a.lines)) = {} } }

\* C27: resolve_conditionals returns a superset of the base set and only
\* ever adds symbols while resolving; every returned symbol not in the base
\* set is the name of a definition recorded in a branch list of a closed
\* block of the tree, so definitions inside blocks left unclosed at the end
\* of input never contribute; the base set and the block tree are left
\* unchanged.
C27_OnlyAdds ==
  Resolved =>
    /\ active_defines \subseteq closure
    /\ \A i \in DOMAIN eval_log :
         /\ eval_log[i].before \subseteq eval_log[i].after
         /\ active_defines \subseteq eval_log[i].before
         /\ eval_log[i].after \subseteq closure
    /\ closure \ active_defines \subseteq
         UNION { BranchNames(b.defines) \cup BranchNames(b.else_defines) : b \in TreeBlocks }
    /\ closure \ active_defines \subseteq NamesInClosedBlocks(Annotated(raw_lines))
    /\ Last(snapshots) = ResultNow(Len(results))

\* A resolve call added a symbol to the base set while a definition of
\* another symbol, inside a block left unclosed, stayed out of the closure.
C27_Witness ==
  /\ Resolved
  /\ closure # active_defines
  /\ \E k \in DOMAIN conditional_stack :
       /\ conditional_stack[k].defines # <<>>
       /\ BranchNames(conditional_stack[k].defines) \cap closure = {}

\* ------------------------------------------------------------------ C28
\* The branch list of a block that an evaluation took.
TakenBranch(e) ==
  IF e.active THEN BlockAt(e.block).defines ELSE BlockAt(e.block).else_defines

\* C28: resolve_conditionals adds the symbols of a taken branch regardless
\* of their active flag: a comment-prefixed or later-undefined symbol
\* recorded in the taken branch of a block is in the closure, and what an
\* evaluation adds is the names of all the nodes of the taken branch, whatever
\* their flags.
C28_FlagsIgnored ==
  Resolved =>
    \A i \in DOMAIN eval_log :
      /\ \A k \in Range(TakenBranch(eval_log[i])) : nodes[k].name \in closure
      /\ eval_log[i].after = eval_log[i].before \cup BranchNames(TakenBranch(eval_log[i]))

\* A comment-prefixed definition in a taken branch has put into the closure
\* a symbol that was not in the base set and that no node holds active.
C28_Witness ==
  /\ Resolved
  /\ \E i \in DOMAIN eval_log :
       \E k \in Range(TakenBranch(eval_log[i])) :
         /\ nodes[k].is_commented
         /\ nodes[k].name \in closure \ active_defines
         /\ \A id \in DOMAIN nodes : nodes[id].name = nodes[k].name => ~nodes[id].is_active

\* A definition undefined after its block was closed has put its symbol
\* into the closure.
C28_UndefinedWitness ==
  /\ Resolved
  /\ \E i \in DOMAIN eval_log :
       \E k \in Range(TakenBranch(eval_log[i])) :
         /\ ~nodes[k].is_commented
         /\ ~nodes[k].is_active
         /\ nodes[k].name \in closure \ active_defines

\* ------------------------------------------------------------------ C29
\* The step of parse() that reads an end directive while no block is open.
ReadsStrayEnd ==
  /\ pc = "parsing"
  /\ line_num' = line_num + 1
  /\ ~in_block_comment
  /\ ~raw_lines'[line_num'].open
  /\ raw_lines'[line_num'].kind = "endif"
  /\ conditional_stack = <<>>

\* What parse() holds, after the whole text, for each stray end directive and
\* for the lines around it.
StrayEndsRecorded ==
  LET a == Annotated(raw_lines)
      end_errors == SelectSeq(errors, LAMBDA e : e.kind = "endif")
  IN /\ Len(end_errors) = Cardinality(StrayEnds(raw_lines))
     /\ { end_errors[k].line : k \in DOMAIN end_errors } = StrayEnds(raw_lines)
     /\ Parsed =>
          /\ StrayEnds(raw_lines) # {} => ~Last(results).success
          /\ DOMAIN defines = DefinedNames(raw_lines)
          /\ { b.start_line : b \in TreeBlocks } =
               { p \in ClosedBlocks(a) :
                   OpenBlocksAt(a, ClosingLineOf(a, p)) \cap OpenBlocksAt(a, Len(raw_lines)) = {} }

\* C29: an end directive met while no block is open records exactly one
\* error, so the final success is false, leaves the block stack, the symbol
\* table and the block tree unchanged, and parsing continues with the
\* following lines, whose definitions and blocks are still recorded.
C29_StrayEnd ==
  /\ []StrayEndsRecorded
  /\ [][ReadsStrayEnd =>
          /\ errors' = Append(errors, [kind |-> "endif", line |-> line_num'])
          /\ pc' = "parsing"
          /\ UNCHANGED <<conditional_stack, nodes, defines, conditionals, in_block_comment>>]_vars

\* parse() has returned after a stray end directive on an earlier line: one
\* error, success false, and a definition and a block of the later lines
\* recorded.
C29_Witness ==
  /\ Parsed
  /\ ~Last(results).success
  /\ Len(errors) = 1
  /\ errors[1].kind = "endif"
  /\ \E n \in DOMAIN defines : nodes[defines[n]].line_number > errors[1].line
  /\ \E k \in DOMAIN conditionals : conditionals[k].start_line > errors[1].line

\* ------------------------------------------------------------------ C30
\* The state of the manager, without the record of the last call.
managerState ==
  <<rules, features, active_features, active_options, pins, settings, board_id,
    last_validation>>

FeatureStateConsistent ==
  /\ active_features = { f \in DOMAIN features : features[f].is_active }
  /\ \A f \in DOMAIN features : ~(features[f].is_active /\ features[f].is_commented)

\* C30: after load() and any sequence of enable_feature, disable_feature,
\* import_from_dict and apply_auto_fixes calls, active_features is exactly the
\* set of feature names whose table entry has is_active true, no entry is both
\* is_active and is_commented, and an enable_feature or disable_feature call
\* naming a symbol that is not in the feature table changes no state.
C30_FeatureState ==
  /\ []FeatureStateConsistent
  /\ [][\A f \in CallerNames \ DOMAIN features :
          (EnableFeature(f) \/ DisableFeature(f)) => UNCHANGED managerState]_vars

\* After an import that changed a pin assignment, apply_auto_fixes has
\* enabled a feature; the table holds an active and a commented entry.
C30_Witness ==
  /\ Has(call)
  /\ call[1].who = "apply_auto_fixes"
  /\ call[1].count >= 1
  /\ pins.at["azimuth_speed_voltage"] = PStr("4")
  /\ \E f \in DOMAIN features : features[f].is_active
  /\ \E f \in DOMAIN features : features[f].is_commented
  /\ FeatureStateConsistent

====
